---- MODULE Spec2Model ----
(***************************************************************************)
(* Page Composition & Validation Pipeline of dev2-interweb-site.           *)
(*                                                                         *)
(* Strings are sequences of tokens (<<"header", ".", "default">> is        *)
(* "header.default", <<>> is the empty string), so that prefix tests,      *)
(* template literals (concatenation) and truthiness are computed as the    *)
(* code computes them.  YAML/JSON values are tagged records.               *)
(***************************************************************************)
EXTENDS Integers, Sequences, FiniteSets, TLC

\* ------------------------------------------------------------------------
\* Bounds of the model
\* ------------------------------------------------------------------------
\* longest sections array a stored document carries
MaxSections == 2

\* ------------------------------------------------------------------------
\* Strings and JSON values
\* ------------------------------------------------------------------------
\* String.prototype.startsWith
StartsWith(s, p) == Len(s) >= Len(p) /\ SubSeq(s, 1, Len(p)) = p

\* Array.prototype.join over a sequence of strings
RECURSIVE Join(_, _)
Join(list, sep) ==
  IF list = <<>> THEN <<>>
  ELSE IF Len(list) = 1 THEN Head(list)
  ELSE Head(list) \o sep \o Join(Tail(list), sep)

UNDEFINED == [t |-> "undefined"]
JNULL == [t |-> "null"]
JNUMBER == [t |-> "number"]
JStr(s) == [t |-> "string", s |-> s]
JBool(b) == [t |-> "boolean", b |-> b]
\* a key/value mapping, kept as its Object.entries() sequence
JRec(es) == [t |-> "record", es |-> es]
JArr(items) == [t |-> "array", items |-> items]

IsString(v) == v.t = "string"
\* JavaScript truthiness of a value (numbers of the model are non-zero)
Truthy(v) ==
  CASE v.t = "undefined" -> FALSE
    [] v.t = "null" -> FALSE
    [] v.t = "string" -> v.s # <<>>
    [] v.t = "boolean" -> v.b
    [] OTHER -> TRUE
\* a ?? b
Coalesce(a, b) == IF a.t \in {"undefined", "null"} THEN b ELSE a
\* typeof-like name zod prints in "received ..."
TypeName(v) == IF v.t = "record" THEN "object" ELSE v.t

\* ------------------------------------------------------------------------
\* Page policy and shell slot rules
\* ------------------------------------------------------------------------
PageKinds == {<<"site">>, <<"p">>, <<"demo">>}
NOINDEX_KINDS == {<<"p">>, <<"demo">>}

SHELL_SLOT_PREFIXES == [header |-> <<"header", ".">>, footer |-> <<"footer", ".">>]
ShellSlots == {"header", "footer"}

isValidShellSlot(shellId, slot) == StartsWith(shellId, SHELL_SLOT_PREFIXES[slot])

\* ------------------------------------------------------------------------
\* Zod schemas of the server-side loader.  Every parser returns
\* [issues |-> sequence of [path, message], data |-> parsed value].
\* ------------------------------------------------------------------------
Issue(path, message) == [path |-> path, message |-> message]
Parsed(issues, data) == [issues |-> issues, data |-> data]

InvalidType(expected, v) ==
  <<"Invalid input: expected ", expected, ", received ", TypeName(v)>>

\* z.string().min(1)
zStringMin1(v, path) ==
  IF ~IsString(v) THEN Parsed(<<Issue(path, InvalidType("string", v))>>, UNDEFINED)
  ELSE IF Len(v.s) < 1
       THEN Parsed(<<Issue(path, <<"Too small: expected string to have >=1 characters">>)>>,
                   UNDEFINED)
       ELSE Parsed(<<>>, v)

\* z.string().optional()
zStringOptional(v, path) ==
  IF v.t = "undefined" \/ IsString(v) THEN Parsed(<<>>, v)
  ELSE Parsed(<<Issue(path, InvalidType("string", v))>>, UNDEFINED)

\* z.boolean().optional()
zBooleanOptional(v, path) ==
  IF v.t \in {"undefined", "boolean"} THEN Parsed(<<>>, v)
  ELSE Parsed(<<Issue(path, InvalidType("boolean", v))>>, UNDEFINED)

\* z.record(z.string(), z.unknown()).optional().default({})
zPropsRecord(v, path) ==
  IF v.t = "undefined" THEN Parsed(<<>>, JRec(<<>>))
  ELSE IF v.t = "record" THEN Parsed(<<>>, v)
  ELSE Parsed(<<Issue(path, InvalidType("record", v))>>, UNDEFINED)

\* CssOverridesSchema: record of strings whose keys all start with "--", optional
CssOverridesSchema(v, path) ==
  IF v.t = "undefined" THEN Parsed(<<>>, v)
  ELSE IF v.t # "record" THEN Parsed(<<Issue(path, InvalidType("record", v))>>, UNDEFINED)
  ELSE IF \E i \in 1..Len(v.es) : ~IsString(v.es[i].v)
       THEN Parsed(<<Issue(path, <<"Invalid input: expected string">>)>>, UNDEFINED)
  ELSE IF \A i \in 1..Len(v.es) : StartsWith(v.es[i].k, <<"--">>)
       THEN Parsed(<<>>, v)
       ELSE Parsed(<<Issue(path, <<"Override keys must start with \"--\"">>)>>, UNDEFINED)

\* PageSeoSchema
PageSeoSchema(v, path) ==
  IF v.t # "object" THEN Parsed(<<Issue(path, InvalidType("object", v))>>, UNDEFINED)
  ELSE LET title == zStringMin1(v.title, path \o <<".", "title">>)
           description == zStringMin1(v.description, path \o <<".", "description">>)
           image == zStringOptional(v.image, path \o <<".", "image">>)
           noindex == zBooleanOptional(v.noindex, path \o <<".", "noindex">>)
       IN Parsed(title.issues \o description.issues \o image.issues \o noindex.issues,
                 [t |-> "object", title |-> title.data, description |-> description.data,
                  image |-> image.data, noindex |-> noindex.data])

\* ShellComponentSchema: union of null and {id: min(1), props: record default {}}, optional
ShellComponentSchema(v, path) ==
  IF v.t \in {"undefined", "null"} THEN Parsed(<<>>, v)
  ELSE IF v.t = "object"
          /\ zStringMin1(v.id, path).issues = <<>>
          /\ zPropsRecord(v.props, path).issues = <<>>
       THEN Parsed(<<>>, [t |-> "object", id |-> v.id,
                          props |-> zPropsRecord(v.props, path).data])
       ELSE Parsed(<<Issue(path, <<"Invalid input">>)>>, UNDEFINED)

\* PageShellSchema (the loader always passes the normalized {header, footer} object)
PageShellSchema(v, path) ==
  LET header == ShellComponentSchema(v.header, path \o <<".", "header">>)
      footer == ShellComponentSchema(v.footer, path \o <<".", "footer">>)
  IN Parsed(header.issues \o footer.issues,
            [header |-> header.data, footer |-> footer.data])

\* SectionDefSchema
SectionDefSchema(v, path) ==
  IF v.t # "object" THEN Parsed(<<Issue(path, InvalidType("object", v))>>, UNDEFINED)
  ELSE LET id == zStringMin1(v.id, path \o <<".", "id">>)
           pack == zStringOptional(v.pack, path \o <<".", "pack">>)
           props == zPropsRecord(v.props, path \o <<".", "props">>)
           overrides == CssOverridesSchema(v.overrides, path \o <<".", "overrides">>)
       IN Parsed(id.issues \o pack.issues \o props.issues \o overrides.issues,
                 [t |-> "object", id |-> id.data, pack |-> pack.data,
                  props |-> props.data, overrides |-> overrides.data])

RECURSIVE SectionItems(_, _)
\* parses items[i..] of the sections array
SectionItems(items, i) ==
  IF i > Len(items) THEN Parsed(<<>>, <<>>)
  ELSE LET head == SectionDefSchema(items[i], <<"sections", ".", ToString(i - 1)>>)
           rest == SectionItems(items, i + 1)
       IN Parsed(head.issues \o rest.issues, <<head.data>> \o rest.data)

\* the array schema with .min(1) left out
SectionsSchema_NoMin(v) ==
  IF v.t # "array" THEN Parsed(<<Issue(<<"sections">>, InvalidType("array", v))>>, UNDEFINED)
  ELSE Parsed(SectionItems(v.items, 1).issues, JArr(SectionItems(v.items, 1).data))

\* z.array(SectionDefSchema).min(1)
SectionsSchema(v) ==
  IF v.t # "array" THEN Parsed(<<Issue(<<"sections">>, InvalidType("array", v))>>, UNDEFINED)
  ELSE LET items == SectionItems(v.items, 1)
           small == IF Len(v.items) < 1
                    THEN <<Issue(<<"sections">>,
                                 <<"Too small: expected array to have >=1 items">>)>>
                    ELSE <<>>
       IN Parsed(small \o items.issues, JArr(items.data))

\* z.enum(['site', 'p', 'demo'])
KindSchema(v) ==
  IF IsString(v) /\ v.s \in PageKinds THEN Parsed(<<>>, v)
  ELSE Parsed(<<Issue(<<"kind">>,
                      <<"Invalid option: expected one of \"site\"|\"p\"|\"demo\"">>)>>,
              UNDEFINED)

\* PageDefSchema.safeParse(pageData)
PageDefSchema(pageData) ==
  LET kind == KindSchema(pageData.kind)
      slug == zStringOptional(pageData.slug, <<"slug">>)
      packKey == zStringOptional(pageData.packKey, <<"packKey">>)
      themeOverrides == CssOverridesSchema(pageData.themeOverrides, <<"themeOverrides">>)
      seo == PageSeoSchema(pageData.seo, <<"seo">>)
      shell == PageShellSchema(pageData.shell, <<"shell">>)
      sections == SectionsSchema(pageData.sections)
      issues == kind.issues \o slug.issues \o packKey.issues \o themeOverrides.issues
                \o seo.issues \o shell.issues \o sections.issues
  IN [success |-> issues = <<>>,
      issues |-> issues,
      data |-> [kind |-> kind.data, slug |-> slug.data, packKey |-> packKey.data,
                themeOverrides |-> themeOverrides.data, seo |-> seo.data,
                shell |-> shell.data, sections |-> sections.data]]

\* ------------------------------------------------------------------------
\* Runtime configuration
\* ------------------------------------------------------------------------
\* getRuntimeI18n: (config.public?.defaultLocale as string) || 'fr'
getRuntimeI18n(cfg) ==
  [defaultLocale |-> IF cfg.defaultLocale # <<>> THEN cfg.defaultLocale ELSE <<"fr">>]

\* getShellStrictPrivate: Boolean(config.public?.shellStrictPrivate)
getShellStrictPrivate(cfg) == cfg.shellStrictPrivate

\* ------------------------------------------------------------------------
\* Loader helpers
\* ------------------------------------------------------------------------
\* the rule without the kinds that are never indexed
forceNoindex_PageOnly(kind, pageSeoNoindex) == Coalesce(pageSeoNoindex, JBool(FALSE)).b

\* forceNoindex (page-loader.ts and page.schema.ts hold the same function)
forceNoindex(kind, pageSeoNoindex) ==
  IF kind \in NOINDEX_KINDS THEN TRUE
  ELSE Coalesce(pageSeoNoindex, JBool(FALSE)).b

\* a path builder without the home-page case
buildContentPath_NoHome(kind, slug, locale) ==
  <<"/">> \o locale \o <<"/pages/">> \o kind \o <<"/">> \o slug

\* page-loader.ts: buildContentPath (lines 192-198)
buildContentPath(kind, slug, locale) ==
  IF slug = <<>> \/ slug = <<"index">>
  THEN <<"/">> \o locale \o <<"/pages/">> \o kind
  ELSE <<"/">> \o locale \o <<"/pages/">> \o kind \o <<"/">> \o slug

\* serverQueryContent(event).where({ _path }).findOne()
findOne(store, path) ==
  IF \E d \in store : d._path = path
  THEN CHOOSE d \in store : d._path = path
  ELSE JNULL

normalizeShellComponent(value) ==
  IF value.t = "null" THEN JNULL
  ELSE IF value.t = "undefined" THEN UNDEFINED
  ELSE IF value.t = "string" THEN [t |-> "object", id |-> value, props |-> JRec(<<>>)]
  ELSE IF value.t = "object" /\ value.id.t # "undefined"
       THEN [t |-> "object", id |-> value.id,
             props |-> IF Truthy(value.props) THEN value.props ELSE JRec(<<>>)]
  ELSE UNDEFINED

normalizeShell(shell) ==
  IF ~Truthy(shell) \/ shell.t # "object"
  THEN [header |-> UNDEFINED, footer |-> UNDEFINED]
  ELSE [header |-> normalizeShellComponent(shell.header),
        footer |-> normalizeShellComponent(shell.footer)]

Thrown(statusCode, statusMessage) ==
  [type |-> "throw", statusCode |-> statusCode, statusMessage |-> statusMessage]
NoThrow == [type |-> "ok"]

SlotMismatchMessage(isDev, shellId, slot, contentPath) ==
  IF isDev
  THEN <<"Shell slot mismatch: \"">> \o shellId \o <<"\" must start with \"">>
       \o SHELL_SLOT_PREFIXES[slot] \o <<"\" to be used in ", slot, " slot (">>
       \o contentPath \o <<")">>
  ELSE <<"Invalid shell configuration">>

\* the TypeError of shellId.startsWith(...) on an id that is not a string
NotAString == Thrown(500, <<"shellId.startsWith is not a function">>)

\* validateShellSlots: the error it throws, or NoThrow
validateShellSlots(shell, isDev, contentPath) ==
  IF Truthy(shell.header) /\ Truthy(shell.header.id) /\ ~IsString(shell.header.id)
  THEN NotAString
  ELSE IF Truthy(shell.header) /\ Truthy(shell.header.id)
          /\ ~isValidShellSlot(shell.header.id.s, "header")
  THEN Thrown(500, SlotMismatchMessage(isDev, shell.header.id.s, "header", contentPath))
  ELSE IF Truthy(shell.footer) /\ Truthy(shell.footer.id) /\ ~IsString(shell.footer.id)
  THEN NotAString
  ELSE IF Truthy(shell.footer) /\ Truthy(shell.footer.id)
          /\ ~isValidShellSlot(shell.footer.id.s, "footer")
  THEN Thrown(500, SlotMismatchMessage(isDev, shell.footer.id.s, "footer", contentPath))
  ELSE NoThrow

\* loadPage, lines 320-331: strict mode forces both shells of p/demo pages to null
IsPresent(v) == v.t \notin {"null", "undefined"}

\* a strict mode that forgets the footer
applyStrictPrivate_HeaderOnly(shell, kind, shellStrictPrivate) ==
  IF shellStrictPrivate /\ (kind = <<"p">> \/ kind = <<"demo">>)
     /\ (IsPresent(shell.header) \/ IsPresent(shell.footer))
  THEN [header |-> JNULL, footer |-> shell.footer]
  ELSE shell

applyStrictPrivate(shell, kind, shellStrictPrivate) ==
  IF shellStrictPrivate /\ (kind = <<"p">> \/ kind = <<"demo">>)
     /\ (IsPresent(shell.header) \/ IsPresent(shell.footer))
  THEN [header |-> JNULL, footer |-> JNULL]
  ELSE shell

\* loadPage, lines 325-343: the console.warn calls of the strict / flex branches
strictWarnings(shell, kind, shellStrictPrivate, isDev) ==
  IF shellStrictPrivate /\ (kind = <<"p">> \/ kind = <<"demo">>)
  THEN IF isDev /\ (IsPresent(shell.header) \/ IsPresent(shell.footer))
       THEN <<"STRICT MODE: Forcing shell.header and shell.footer to null">>
       ELSE <<>>
  ELSE IF isDev /\ (kind = <<"p">> \/ kind = <<"demo">>)
       THEN (IF IsPresent(shell.header) THEN <<"has shell.header set">> ELSE <<>>)
            \o (IF IsPresent(shell.footer) THEN <<"has shell.footer set">> ELSE <<>>)
       ELSE <<>>

\* loadPage, lines 352-360
buildPageData(rawPage, kind, slug, normalizedShell) ==
  [kind |-> Coalesce(rawPage.kind, JStr(kind)),
   slug |-> Coalesce(rawPage.slug, JStr(slug)),
   packKey |-> rawPage.packKey,
   themeOverrides |-> rawPage.themeOverrides,
   seo |-> rawPage.seo,
   shell |-> normalizedShell,
   sections |-> rawPage.sections]

RECURSIVE IssueMessages(_)
IssueMessages(issues) ==
  IF issues = <<>> THEN <<>> ELSE <<Head(issues).message>> \o IssueMessages(Tail(issues))

\* loadPage, lines 372-377
InvalidPageMessage(isDev, issues) ==
  IF isDev
  THEN <<"Invalid page definition: ">> \o Join(IssueMessages(issues), <<", ">>)
  ELSE <<"Invalid page configuration">>

\* ------------------------------------------------------------------------
\* Section and shell registries: a Map, kept as its entries in insertion order.
\* A props schema is a z.object, kept as the sequence of its fields.
\* ------------------------------------------------------------------------
Field(name, type, optional, min, minMessage, default) ==
  [name |-> name, type |-> type, optional |-> optional, min |-> min,
   minMessage |-> minMessage, default |-> default]

\* sections/hero.split/schema.ts (imageUrl also has a url format, which no input
\* of the model exercises)
HeroSplitSchema ==
  <<Field(<<"title">>, "string", FALSE, 1, <<"Title is required">>, UNDEFINED),
    Field(<<"subtitle">>, "string", TRUE, 0, <<>>, UNDEFINED),
    Field(<<"ctaLabel">>, "string", TRUE, 0, <<>>, UNDEFINED),
    Field(<<"ctaHref">>, "string", TRUE, 0, <<>>, UNDEFINED),
    Field(<<"imageUrl">>, "string", TRUE, 0, <<>>, UNDEFINED)>>

\* shells/header.default/schema.ts (as for links below, the item schema of
\* navItems is not descended into)
HeaderDefaultSchema ==
  <<Field(<<"logoText">>, "string", TRUE, 0, <<>>, JStr(<<"Logo">>)),
    Field(<<"logoHref">>, "string", TRUE, 0, <<>>, JStr(<<"/">>)),
    Field(<<"navItems">>, "array", TRUE, 0, <<>>, JArr(<<>>))>>

\* shells/header.minimal/schema.ts
HeaderMinimalSchema ==
  <<Field(<<"logoText">>, "string", TRUE, 0, <<>>, JStr(<<"Logo">>)),
    Field(<<"logoHref">>, "string", TRUE, 0, <<>>, JStr(<<"/">>))>>

\* shells/footer.default/schema.ts (the item schema of links is not descended
\* into: no input of the model carries an array)
FooterDefaultSchema ==
  <<Field(<<"companyName">>, "string", TRUE, 0, <<>>, JStr(<<"Company">>)),
    Field(<<"year">>, "number", TRUE, 0, <<>>, JNUMBER),
    Field(<<"links">>, "array", TRUE, 0, <<>>, JArr(<<>>))>>

\* the value of key in an Object.entries() sequence, UNDEFINED when absent
RECURSIVE Lookup(_, _)
Lookup(es, key) ==
  IF es = <<>> THEN UNDEFINED
  ELSE IF es[Len(es)].k = key THEN es[Len(es)].v
  ELSE Lookup(SubSeq(es, 1, Len(es) - 1), key)

\* one field of a z.object: its issues and its entry in the parsed data
parseField(f, v) ==
  IF v.t = "undefined"
  THEN IF f.default.t # "undefined" THEN Parsed(<<>>, <<[k |-> f.name, v |-> f.default]>>)
       ELSE IF f.optional THEN Parsed(<<>>, <<>>)
       ELSE Parsed(<<Issue(f.name, InvalidType(f.type, v))>>, <<>>)
  ELSE IF v.t # f.type THEN Parsed(<<Issue(f.name, InvalidType(f.type, v))>>, <<>>)
  ELSE IF f.type = "string" /\ Len(v.s) < f.min THEN Parsed(<<Issue(f.name, f.minMessage)>>, <<>>)
  ELSE Parsed(<<>>, <<[k |-> f.name, v |-> v]>>)

RECURSIVE parseFields(_, _)
parseFields(fields, es) ==
  IF fields = <<>> THEN Parsed(<<>>, <<>>)
  ELSE LET head == parseField(Head(fields), Lookup(es, Head(fields).name))
           rest == parseFields(Tail(fields), es)
       IN Parsed(head.issues \o rest.issues, head.data \o rest.data)

\* schema.safeParse(props): unknown keys are stripped, defaults applied
safeParse(schema, props) ==
  IF props.t # "record"
  THEN [success |-> FALSE, issues |-> <<Issue(<<>>, InvalidType("object", props))>>,
        data |-> UNDEFINED]
  ELSE LET parsed == parseFields(schema, props.es)
       IN [success |-> parsed.issues = <<>>, issues |-> parsed.issues,
           data |-> JRec(parsed.data)]

\* Map.get: the entry registered under id, JNULL when there is none
RECURSIVE MapGet(_, _)
MapGet(registry, id) ==
  IF registry = <<>> THEN JNULL
  ELSE IF Head(registry).id = id THEN Head(registry)
  ELSE MapGet(Tail(registry), id)
MapHas(registry, id) == MapGet(registry, id) # JNULL

\* Map.set: an id already present keeps its position and takes the new entry,
\* a new id is appended
MapSet(registry, entry) ==
  IF MapHas(registry, entry.id)
  THEN [i \in 1..Len(registry) |->
          IF registry[i].id = entry.id THEN entry ELSE registry[i]]
  ELSE Append(registry, entry)

\* defineAsyncComponent(() => import('~/sections/<id>/index.vue'))
AsyncComponent(id) == JStr(<<"component:">> \o id)
\* a fixtures array, kept as its length
Fixtures(n) == JArr([i \in 1..n |-> JRec(<<>>)])
\* the props schema of an entry whose fields are not enumerated here (no page of
\* the inputs names such an entry)
OpaqueSchema == <<>>

SectionEntry(id, component, schema, fixtures) ==
  [t |-> "entry", id |-> id, slot |-> "section", component |-> component,
   schema |-> schema, fixtures |-> fixtures]
ShellEntry(id, slot, component, schema, fixtures) ==
  [t |-> "entry", id |-> id, slot |-> slot, component |-> component,
   schema |-> schema, fixtures |-> fixtures]

ConsoleLine(level, message) == [level |-> level, message |-> message]

\* a registerSection that keeps the entry registered first
registerSection_FirstWins(registry, entry) ==
  [registry |-> IF MapHas(registry, entry.id) THEN registry ELSE Append(registry, entry),
   console |-> IF MapHas(registry, entry.id)
               THEN <<ConsoleLine("warn", <<"[SectionRegistry] Duplicate section id: \"">>
                                          \o entry.id \o <<"\" - overwriting">>)>>
               ELSE <<>>]

\* SectionRegistry.ts: registerSection, as the registry and the console lines it leaves
registerSection(registry, entry) ==
  [registry |-> MapSet(registry, entry),
   console |-> IF MapHas(registry, entry.id)
               THEN <<ConsoleLine("warn", <<"[SectionRegistry] Duplicate section id: \"">>
                                          \o entry.id \o <<"\" - overwriting">>)>>
               ELSE <<>>]

\* ShellRegistry.ts: registerShell
registerShell(registry, entry) ==
  [registry |-> MapSet(registry, entry),
   console |->
     (IF ~StartsWith(entry.id, <<entry.slot, ".">>)
      THEN <<ConsoleLine("error", <<"[ShellRegistry] Invalid shell id: \"">> \o entry.id
                                  \o <<"\" must start with \"", entry.slot, ".",
                                       "\" for ", entry.slot, " slot">>)>>
      ELSE <<>>)
     \o (IF MapHas(registry, entry.id)
         THEN <<ConsoleLine("warn", <<"[ShellRegistry] Duplicate shell id: \"">>
                                    \o entry.id \o <<"\" - overwriting">>)>>
         ELSE <<>>)]

\* a module whose third section is registered without fixtures
SectionRegistrations_NoFixtures ==
  <<SectionEntry(<<"hero", ".", "split">>, AsyncComponent(<<"hero", ".", "split">>),
                 HeroSplitSchema, Fixtures(2)),
    SectionEntry(<<"faq", ".", "simple">>, AsyncComponent(<<"faq", ".", "simple">>),
                 OpaqueSchema, Fixtures(2)),
    SectionEntry(<<"layout", ".", "stack">>, AsyncComponent(<<"layout", ".", "stack">>),
                 OpaqueSchema, Fixtures(0))>>

\* SectionRegistry.ts: the registerSection calls of the module body, in order
SectionRegistrations ==
  <<SectionEntry(<<"hero", ".", "split">>, AsyncComponent(<<"hero", ".", "split">>),
                 HeroSplitSchema, Fixtures(2)),
    SectionEntry(<<"faq", ".", "simple">>, AsyncComponent(<<"faq", ".", "simple">>),
                 OpaqueSchema, Fixtures(2)),
    SectionEntry(<<"layout", ".", "stack">>, AsyncComponent(<<"layout", ".", "stack">>),
                 OpaqueSchema, Fixtures(2)),
    SectionEntry(<<"layout", ".", "split">>, AsyncComponent(<<"layout", ".", "split">>),
                 OpaqueSchema, Fixtures(2)),
    SectionEntry(<<"interweb", ".", "hero">>, AsyncComponent(<<"interweb", ".", "hero">>),
                 OpaqueSchema, Fixtures(1)),
    SectionEntry(<<"interweb", ".", "features">>,
                 AsyncComponent(<<"interweb", ".", "features">>), OpaqueSchema, Fixtures(1)),
    SectionEntry(<<"interweb", ".", "bento">>, AsyncComponent(<<"interweb", ".", "bento">>),
                 OpaqueSchema, Fixtures(1)),
    SectionEntry(<<"interweb", ".", "testimonials">>,
                 AsyncComponent(<<"interweb", ".", "testimonials">>), OpaqueSchema,
                 Fixtures(1)),
    SectionEntry(<<"interweb", ".", "recap">>, AsyncComponent(<<"interweb", ".", "recap">>),
                 OpaqueSchema, Fixtures(1)),
    SectionEntry(<<"interweb", ".", "results">>,
                 AsyncComponent(<<"interweb", ".", "results">>), OpaqueSchema, Fixtures(1)),
    SectionEntry(<<"interweb", ".", "contact">>,
                 AsyncComponent(<<"interweb", ".", "contact">>), OpaqueSchema, Fixtures(1))>>

\* ShellRegistry.ts: the registerShell calls of the module body, in order
ShellRegistrations ==
  <<ShellEntry(<<"header", ".", "default">>, "header",
               AsyncComponent(<<"header", ".", "default">>), HeaderDefaultSchema,
               Fixtures(2)),
    ShellEntry(<<"header", ".", "minimal">>, "header",
               AsyncComponent(<<"header", ".", "minimal">>), HeaderMinimalSchema,
               Fixtures(2)),
    ShellEntry(<<"footer", ".", "default">>, "footer",
               AsyncComponent(<<"footer", ".", "default">>), FooterDefaultSchema,
               Fixtures(2)),
    ShellEntry(<<"header", ".", "interweb">>, "header",
               AsyncComponent(<<"header", ".", "interweb">>), OpaqueSchema, Fixtures(1)),
    ShellEntry(<<"footer", ".", "interweb">>, "footer",
               AsyncComponent(<<"footer", ".", "interweb">>), OpaqueSchema, Fixtures(1))>>

\* the registry a sequence of register calls leaves, from an empty Map
RECURSIVE registerSections(_, _)
registerSections(registry, entries) ==
  IF entries = <<>> THEN registry
  ELSE registerSections(registerSection(registry, Head(entries)).registry, Tail(entries))
RECURSIVE registerShells(_, _)
registerShells(registry, entries) ==
  IF entries = <<>> THEN registry
  ELSE registerShells(registerShell(registry, Head(entries)).registry, Tail(entries))

\* the registries once the module bodies have run
RegisteredSections == registerSections(<<>>, SectionRegistrations)
RegisteredShells == registerShells(<<>>, ShellRegistrations)

\* getSectionSchema / getShellSchema: registry.get(id)?.schema ?? null
getSchema(registry, id) ==
  IF MapHas(registry, id) THEN [t |-> "schema", fields |-> MapGet(registry, id).schema]
  ELSE JNULL
\* getSectionComponent / getShellComponent: registry.get(id)?.component ?? null
getComponent(registry, id) ==
  IF MapHas(registry, id) THEN Coalesce(MapGet(registry, id).component, JNULL) ELSE JNULL
\* getSectionFixtures / getShellFixtures: registry.get(id)?.fixtures ?? null
getFixtures(registry, id) ==
  IF MapHas(registry, id) THEN Coalesce(MapGet(registry, id).fixtures, JNULL) ELSE JNULL

\* the words ids are made of, in the order of their characters
IdWords ==
  <<".", "bento", "contact", "default", "faq", "features", "footer", "ghost", "header",
    "hero", "interweb", "layout", "minimal", "recap", "results", "simple", "split",
    "stack", "testimonials">>
WordRank(w) == CHOOSE i \in 1..Len(IdWords) : IdWords[i] = w
\* a < b for two ids, character by character ('.' sorts before every letter)
RECURSIVE IdLess(_, _)
IdLess(a, b) ==
  IF b = <<>> THEN FALSE
  ELSE IF a = <<>> THEN TRUE
  ELSE IF Head(a) = Head(b) THEN IdLess(Tail(a), Tail(b))
  ELSE WordRank(Head(a)) < WordRank(Head(b))
\* Array.prototype.sort on ids
RECURSIVE SortIds(_)
SortIds(ids) ==
  IF ids = <<>> THEN <<>>
  ELSE LET least == CHOOSE i \in 1..Len(ids) :
                      \A j \in 1..Len(ids) : ~IdLess(ids[j], ids[i])
       IN <<ids[least]>>
          \o SortIds([k \in 1..(Len(ids) - 1) |-> IF k < least THEN ids[k] ELSE ids[k + 1]])
\* entries.sort((a, b) => a.id.localeCompare(b.id)); the ids of a Map are distinct
SortById(entries) ==
  LET ids == SortIds([i \in 1..Len(entries) |-> entries[i].id])
  IN [i \in 1..Len(entries) |-> MapGet(entries, ids[i])]

\* Array.from(registry.keys())
MapKeys(registry) == [i \in 1..Len(registry) |-> registry[i].id]
\* SectionRegistry.ts: getRegisteredSectionIds, getAllSections
getRegisteredSectionIds(registry) == MapKeys(registry)
getAllSections(registry) == registry
\* ShellRegistry.ts: getRegisteredShellIds, getAllShells, listShellsBySlot
getRegisteredShellIds(registry) == SortIds(MapKeys(registry))
getAllShells(registry) == SortById(registry)
listShellsBySlot(registry, slot) ==
  SortById(SelectSeq(registry, LAMBDA entry : entry.slot = slot))

\* issues.map(i => `${i.path.join('.')}: ${i.message}`)
RECURSIVE RegistryIssueLines(_)
RegistryIssueLines(issues) ==
  IF issues = <<>> THEN <<>>
  ELSE <<Head(issues).path \o <<": ">> \o Head(issues).message>>
       \o RegistryIssueLines(Tail(issues))

\* a validation that answers an unknown id with null
validateProps_NullOnUnknown(registry, what, id, props) ==
  IF ~MapHas(registry, id) THEN JNULL
  ELSE LET result == safeParse(MapGet(registry, id).schema, props)
       IN IF result.success THEN [success |-> TRUE, data |-> result.data]
          ELSE [success |-> FALSE,
                error |-> Join(RegistryIssueLines(result.issues), <<"; ">>)]

\* validateSectionProps / validateShellProps (what is "Section" or "Shell")
validateProps(registry, what, id, props) ==
  IF ~MapHas(registry, id)
  THEN [success |-> FALSE, error |-> <<what, " \"">> \o id \o <<"\" not found in registry">>]
  ELSE LET result == safeParse(MapGet(registry, id).schema, props)
       IN IF result.success THEN [success |-> TRUE, data |-> result.data]
          ELSE [success |-> FALSE,
                error |-> Join(RegistryIssueLines(result.issues), <<"; ">>)]
validateSectionProps(registry, id, props) == validateProps(registry, "Section", id, props)
validateShellProps(registry, id, props) == validateProps(registry, "Shell", id, props)

\* issues.map(i => `${path.join('.') + ': '}${message}`).join('\n')
RECURSIVE IssueLines(_)
IssueLines(issues) ==
  IF issues = <<>> THEN <<>>
  ELSE <<(IF Head(issues).path # <<>> THEN Head(issues).path \o <<": ">> ELSE <<>>)
         \o Head(issues).message>> \o IssueLines(Tail(issues))
formatIssues(issues) == Join(IssueLines(issues), <<"\n">>)

ValidationState(valid, error, validatedProps) ==
  [valid |-> valid, error |-> error, validatedProps |-> validatedProps]

\* SectionRenderer: validation (lines 45-78)
sectionValidation(registry, section) ==
  LET schema == getSchema(registry, section.id.s)
  IN IF schema = JNULL
     THEN ValidationState(FALSE, <<"Section \"">> \o section.id.s
                                 \o <<"\" not found in registry">>, JRec(<<>>))
     ELSE LET parsed == safeParse(schema.fields, section.props)
          IN IF parsed.success THEN ValidationState(TRUE, <<>>, parsed.data)
             ELSE ValidationState(FALSE, formatIssues(parsed.issues), JRec(<<>>))

\* a setup that lets an invalid section through
sectionThrows_Never(dev, registry, section) == NoThrow

\* SectionRenderer: the createError thrown by setup (lines 84-89), or NoThrow
sectionThrows(dev, registry, section) ==
  IF ~dev /\ ~sectionValidation(registry, section).valid
  THEN Thrown(500, <<"Invalid section props for \"">> \o section.id.s \o <<"\": ">>
                   \o sectionValidation(registry, section).error)
  ELSE NoThrow

\* a pack choice that prefers the pack of the page
effectivePack_PageFirst(section, pagePack) ==
  IF Truthy(pagePack) THEN pagePack ELSE section.pack

\* SectionRenderer: effectivePack (lines 107-109)
effectivePack(section, pagePack) == IF Truthy(section.pack) THEN section.pack ELSE pagePack

RECURSIVE keepCssVars(_)
keepCssVars(es) ==
  IF es = <<>> THEN <<>>
  ELSE (IF StartsWith(Head(es).k, <<"--">>) THEN <<Head(es)>> ELSE <<>>)
       \o keepCssVars(Tail(es))
\* SectionRenderer: sectionStyle (lines 111-127)
sectionStyle(section) ==
  IF ~Truthy(section.overrides) THEN UNDEFINED
  ELSE IF keepCssVars(section.overrides.es) # <<>>
       THEN JRec(keepCssVars(section.overrides.es))
       ELSE UNDEFINED

NoChild == [block |-> "none"]
ComponentChild(component, props) ==
  [block |-> "component", component |-> component, props |-> props]
DiagChild(title, id, error) == [block |-> "diag", title |-> title, id |-> id, error |-> error]

\* a template without its development diagnostics
sectionTemplate_NoDiag(dev, registry, section, pagePack) ==
  [el |-> "section", dataPack |-> effectivePack(section, pagePack),
   style |-> sectionStyle(section),
   child |-> IF sectionValidation(registry, section).valid
             THEN ComponentChild(getComponent(registry, section.id.s).s,
                                 sectionValidation(registry, section).validatedProps)
             ELSE NoChild]

\* SectionRenderer: template (lines 130-181)
sectionTemplate(dev, registry, section, pagePack) ==
  LET validation == sectionValidation(registry, section)
      resolvedComponent == getComponent(registry, section.id.s)
  IN [el |-> "section", dataPack |-> effectivePack(section, pagePack),
      style |-> sectionStyle(section),
      child |-> IF validation.valid /\ Truthy(resolvedComponent)
                THEN ComponentChild(resolvedComponent.s, validation.validatedProps)
                ELSE IF dev /\ ~validation.valid
                THEN DiagChild("Section Props Invalid", section.id.s, validation.error)
                ELSE IF dev /\ ~MapHas(registry, section.id.s)
                THEN DiagChild("Section not found in registry", section.id.s,
                               <<"Register it in SectionRegistry.ts with key \"">>
                               \o section.id.s \o <<"\"">>)
                ELSE NoChild]

\* runtimeError.ts: getExpectedSlotForShellId
getExpectedSlotForShellId(shellId) ==
  IF StartsWith(shellId, <<"header", ".">>) THEN "header"
  ELSE IF StartsWith(shellId, <<"footer", ".">>) THEN "footer"
  ELSE "null"

\* ShellRenderer: shouldRender, shellId (lines 32-40); <<>> stands for a null id
shouldRender(shellDef) == shellDef.t \notin {"null", "undefined"}
shellIdOf(shellDef) ==
  IF shouldRender(shellDef) /\ shellDef.id.t = "string" THEN shellDef.id.s ELSE <<>>

\* ShellRenderer: slotValidation (lines 56-71)
slotValidation(shellDef, slot) ==
  LET shellId == shellIdOf(shellDef)
  IN IF shellId = <<>> THEN [valid |-> TRUE, error |-> <<>>]
     ELSE IF isValidShellSlot(shellId, slot) THEN [valid |-> TRUE, error |-> <<>>]
     ELSE IF getExpectedSlotForShellId(shellId) # "null"
     THEN [valid |-> FALSE,
           error |-> <<"Shell \"">> \o shellId
                     \o <<"\" is a ", getExpectedSlotForShellId(shellId),
                          " shell but used in ", slot, " slot">>]
     ELSE [valid |-> FALSE,
           error |-> <<"Shell \"">> \o shellId
                     \o <<"\" must start with \"header.\" or \"footer.\"">>]

\* ShellRenderer: validation (lines 83-120)
shellValidation(registry, shellDef) ==
  LET shellId == shellIdOf(shellDef)
      schema == getSchema(registry, shellId)
  IN IF shellId = <<>> THEN ValidationState(TRUE, <<>>, JRec(<<>>))
     ELSE IF schema = JNULL
     THEN ValidationState(FALSE, <<"Shell \"">> \o shellId
                                 \o <<"\" not found in registry">>, JRec(<<>>))
     ELSE LET parsed == safeParse(schema.fields, Coalesce(shellDef.props, JRec(<<>>)))
          IN IF parsed.success THEN ValidationState(TRUE, <<>>, parsed.data)
             ELSE ValidationState(FALSE, formatIssues(parsed.issues), JRec(<<>>))

\* runtimeError.ts: failHard, which always throws: a createError(500) on the
\* production server, a plain Error (no status) in development and on the client
failHard(dev, server, message) ==
  IF dev THEN Thrown(0, message)
  ELSE IF server THEN Thrown(500, message)
  ELSE Thrown(0, message)

\* ShellRenderer: the error thrown by setup (lines 134-144), or NoThrow
shellThrows(dev, server, registry, shellDef, slot) ==
  IF ~dev /\ shouldRender(shellDef)
  THEN IF ~slotValidation(shellDef, slot).valid
       THEN failHard(dev, server, <<"Invalid shell for ", slot, ": ">>
                                  \o slotValidation(shellDef, slot).error)
       ELSE IF ~shellValidation(registry, shellDef).valid
       THEN failHard(dev, server, <<"Invalid shell for ", slot, ": ">>
                                  \o shellValidation(registry, shellDef).error)
       ELSE NoThrow
  ELSE NoThrow

\* ShellRenderer: template (lines 147-216); NoChild when nothing is emitted
shellTemplate(dev, registry, shellDef, slot) ==
  LET shellId == shellIdOf(shellDef)
      validation == shellValidation(registry, shellDef)
      slotCheck == slotValidation(shellDef, slot)
      resolvedComponent == getComponent(registry, shellId)
  IN [el |-> slot, dataPack |-> UNDEFINED, style |-> UNDEFINED,
      child |-> IF ~shouldRender(shellDef) THEN NoChild
                ELSE IF validation.valid /\ slotCheck.valid /\ Truthy(resolvedComponent)
                THEN ComponentChild(resolvedComponent.s, validation.validatedProps)
                ELSE IF dev /\ ~slotCheck.valid
                THEN DiagChild("Shell Slot Mismatch", shellId, slotCheck.error)
                ELSE IF dev /\ shellId # <<>> /\ ~MapHas(registry, shellId)
                THEN DiagChild("Shell not found in registry", shellId,
                               <<"Register it in ShellRegistry.ts with key \"">>
                               \o shellId \o <<"\"">>)
                ELSE IF dev /\ ~validation.valid
                THEN DiagChild("Shell Props Invalid", shellId, validation.error)
                ELSE NoChild]

\* ------------------------------------------------------------------------
\* Packs, ThemeScope and the alternates of a route
\* ------------------------------------------------------------------------
\* packs.manifest.ts: KNOWN_PACKS, isKnownPack
KNOWN_PACKS == <<<<"interweb">>, <<"pizza">>>>
isKnownPack(packKey) == \E i \in 1..Len(KNOWN_PACKS) : KNOWN_PACKS[i] = packKey

\* getPacksUsed: the page pack, then the section packs, non-empty and deduplicated
RECURSIVE sectionPacks(_, _)
sectionPacks(sections, seen) ==
  IF sections = <<>> THEN <<>>
  ELSE LET pack == Head(sections).pack
       IN IF Truthy(pack) /\ ~\E i \in 1..Len(seen) : seen[i] = pack.s
          THEN <<pack.s>> \o sectionPacks(Tail(sections), Append(seen, pack.s))
          ELSE sectionPacks(Tail(sections), seen)
getPacksUsed(pageDef) ==
  LET first == IF Truthy(pageDef.packKey) THEN <<pageDef.packKey.s>> ELSE <<>>
  IN first \o sectionPacks(pageDef.sections.items, first)

UnknownPackMessage(packKey, context) ==
  <<"[Packs] Unknown pack \"">> \o packKey \o <<"\" in ", context, " - known packs: ">>
  \o Join(KNOWN_PACKS, <<", ">>)

\* an assertion that lets every pack through
assertKnownPack_Lenient(dev, server, packKey, context) ==
  [thrown |-> NoThrow, console |-> <<>>]

\* packRegistry: assertKnownPack, as what it throws and what it logs
assertKnownPack(dev, server, packKey, context) ==
  IF ~Truthy(packKey) THEN [thrown |-> NoThrow, console |-> <<>>]
  ELSE IF isKnownPack(packKey.s) THEN [thrown |-> NoThrow, console |-> <<>>]
  ELSE IF dev
  THEN [thrown |-> NoThrow,
        console |-> <<ConsoleLine("warn", UnknownPackMessage(packKey.s, context))>>]
  ELSE IF server
  THEN [thrown |-> Thrown(500, UnknownPackMessage(packKey.s, context)), console |-> <<>>]
  ELSE [thrown |-> Thrown(0, UnknownPackMessage(packKey.s, context)), console |-> <<>>]

\* packRegistry: assertAllPacksKnown (the first throw ends the loop)
RECURSIVE assertAllPacksKnown(_, _, _, _)
assertAllPacksKnown(dev, server, packsUsed, context) ==
  IF packsUsed = <<>> THEN [thrown |-> NoThrow, console |-> <<>>]
  ELSE LET first == assertKnownPack(dev, server, JStr(Head(packsUsed)), context)
       IN IF first.thrown.type = "throw" THEN first
          ELSE LET rest == assertAllPacksKnown(dev, server, Tail(packsUsed), context)
               IN [thrown |-> rest.thrown, console |-> first.console \o rest.console]

\* the keys of an overrides mapping that do not start with "--"
RECURSIVE droppedKeys(_)
droppedKeys(es) ==
  IF es = <<>> THEN <<>>
  ELSE (IF StartsWith(Head(es).k, <<"--">>) THEN <<>> ELSE <<Head(es).k>>)
       \o droppedKeys(Tail(es))

\* a filter that warns about dropped keys in every build
overrideWarnings_Always(dev, prefix, suffix, overrides) ==
  IF ~Truthy(overrides) THEN <<>>
  ELSE [i \in 1..Len(droppedKeys(overrides.es)) |->
          ConsoleLine("warn", prefix \o <<"Invalid override key \"">>
                              \o droppedKeys(overrides.es)[i] \o suffix)]

\* the console.warn calls of sectionStyle and inlineStyle (development only)
overrideWarnings(dev, prefix, suffix, overrides) ==
  IF ~Truthy(overrides) \/ ~dev THEN <<>>
  ELSE [i \in 1..Len(droppedKeys(overrides.es)) |->
          ConsoleLine("warn", prefix \o <<"Invalid override key \"">>
                              \o droppedKeys(overrides.es)[i] \o suffix)]
\* SectionRenderer: the warnings of sectionStyle (lines 111-127)
sectionStyleWarnings(dev, section) ==
  overrideWarnings(dev, <<"[SectionRenderer] ">>,
                   <<"\" in section \"">> \o section.id.s
                   \o <<"\" - must start with \"--\"">>,
                   section.overrides)

\* ThemeScope: inlineStyle (lines 299-312)
inlineStyle(overrides) ==
  IF ~Truthy(overrides) THEN UNDEFINED
  ELSE IF keepCssVars(overrides.es) # <<>> THEN JRec(keepCssVars(overrides.es))
       ELSE UNDEFINED

NoScope == [el |-> "none"]
\* ThemeScope: template
themeScopeTemplate(pack, overrides) ==
  [el |-> "theme-scope", dataPack |-> pack, style |-> inlineStyle(overrides)]
\* ThemeScope: setup (pack assertions, then the warnings of inlineStyle)
themeScopeSetup(dev, server, pack, packsUsed, overrides) ==
  LET primary == assertKnownPack(dev, server, pack, "ThemeScope.pack")
      used == assertAllPacksKnown(dev, server, packsUsed, "ThemeScope.packsUsed")
  IN IF primary.thrown.type = "throw" THEN primary
     ELSE IF used.thrown.type = "throw"
     THEN [thrown |-> used.thrown, console |-> primary.console \o used.console]
     ELSE [thrown |-> NoThrow,
           console |-> primary.console \o used.console
                       \o overrideWarnings(dev, <<"[ThemeScope] ">>,
                                           <<"\" - must start with \"--\"">>, overrides)]

\* /api/__page__/exists: the 400 it throws, or whether a document is stored at
\* /<locale>/pages/<kind>/<slug>
existsEndpoint(store, kind, slug, locale) ==
  IF kind = <<>> \/ slug = <<>> \/ locale = <<>>
  THEN Thrown(400, <<"Missing required params: kind, slug, locale">>)
  ELSE [type |-> "ok",
        exists |-> findOne(store, <<"/">> \o locale \o <<"/pages/">> \o kind
                                  \o <<"/">> \o slug) # JNULL]

\* usePageAlternates: runtimeConfig.public.locales || ['fr', 'en']
alternateLocales == <<<<"fr">>, <<"en">>>>
\* usePageAlternates: buildLocalePath
buildLocalePath(kind, slug, locale, default) ==
  LET kindPrefix == IF kind = <<"site">> THEN <<>> ELSE <<"/">> \o kind
      basePath == kindPrefix \o <<"/">> \o slug
  IN IF locale = default THEN basePath ELSE <<"/">> \o locale \o basePath

\* usePageAlternates: the loop over the locales (an exists call that throws is
\* skipped)
RECURSIVE alternatesOf(_, _, _, _, _, _)
alternatesOf(store, locales, kind, slug, currentLocale, default) ==
  IF locales = <<>> THEN <<>>
  ELSE LET locale == Head(locales)
           answer == existsEndpoint(store, kind, slug, locale)
           rest == alternatesOf(store, Tail(locales), kind, slug, currentLocale, default)
       IN IF locale = currentLocale \/ (answer.type = "ok" /\ answer.exists)
          THEN <<[locale |-> locale, path |-> buildLocalePath(kind, slug, locale, default)]>>
               \o rest
          ELSE rest

\* ------------------------------------------------------------------------
\* server/utils/sitemap.ts. A URL or a path is a token sequence in which every
\* "/" of a public path is a token of its own ("/en/x" is <<"/", "en", "/", "x">>)
\* ------------------------------------------------------------------------
CACHE_TTL == 600000

\* uniq: list.filter(Boolean), deduplicated in order
RECURSIVE uniqFrom(_, _)
uniqFrom(list, seen) ==
  IF list = <<>> THEN <<>>
  ELSE IF Head(list) = <<>> \/ Head(list) \in seen THEN uniqFrom(Tail(list), seen)
  ELSE <<Head(list)>> \o uniqFrom(Tail(list), seen \cup {Head(list)})
uniq(list) == uniqFrom(list, {})

\* path.split('?')[0]?.split('#')[0]
beforeQueryAndHash(path) ==
  LET marks == {i \in 1..Len(path) : path[i] \in {"?", "#"}}
  IN IF marks = {} THEN path
     ELSE SubSeq(path, 1, (CHOOSE i \in marks : \A j \in marks : i <= j) - 1)
normalizePath(path) ==
  LET cleanPath == beforeQueryAndHash(path)
  IN IF cleanPath # <<"/">> /\ cleanPath # <<>> /\ cleanPath[Len(cleanPath)] = "/"
     THEN SubSeq(cleanPath, 1, Len(cleanPath) - 1)
     ELSE IF cleanPath = <<>> THEN <<"/">> ELSE cleanPath

toAbsoluteUrl(siteUrl, path) ==
  LET normalizedSiteUrl == IF siteUrl # <<>> /\ siteUrl[Len(siteUrl)] = "/"
                           THEN SubSeq(siteUrl, 1, Len(siteUrl) - 1) ELSE siteUrl
  IN normalizedSiteUrl \o normalizePath(path)

\* switchLocalePath: the loop that removes the locale prefix of the path
RECURSIVE stripLocalePrefix(_, _, _)
stripLocalePrefix(basePath, locales, default) ==
  IF locales = <<>> THEN basePath
  ELSE LET loc == Head(locales)
       IN IF loc # default /\ StartsWith(basePath, <<"/">> \o loc \o <<"/">>)
          THEN SubSeq(basePath, Len(loc) + 2, Len(basePath))
          ELSE IF loc # default /\ basePath = <<"/">> \o loc THEN <<"/">>
          ELSE stripLocalePrefix(basePath, Tail(locales), default)
switchLocalePath(path, targetLocale, default, locales) ==
  LET basePath == stripLocalePrefix(normalizePath(path), locales, default)
  IN IF targetLocale = default THEN basePath
     ELSE IF basePath = <<"/">> THEN <<"/">> \o targetLocale
     ELSE <<"/">> \o targetLocale \o basePath

\* localeMeta[code] || code
hreflangOf(localeMeta, code) ==
  IF code \in DOMAIN localeMeta /\ localeMeta[code] # <<>> THEN localeMeta[code] ELSE code
Alternate(hreflang, href) == [hreflang |-> hreflang, href |-> href]
buildAlternates(path, siteUrl, locales, localeMeta, default) ==
  [i \in 1..Len(locales) |->
     Alternate(hreflangOf(localeMeta, locales[i]),
               toAbsoluteUrl(siteUrl, switchLocalePath(path, locales[i], default, locales)))]
  \o <<Alternate(<<"x-default">>,
                 toAbsoluteUrl(siteUrl, switchLocalePath(path, default, default, locales)))>>

SitemapEntry(loc, lastmod, alternates) ==
  [loc |-> loc, lastmod |-> lastmod, alternates |-> alternates]

\* PAGE_POLICY[kind]?.sitemap ?? false
isSitemapKind(kind) == kind \in {"site", "blog"}
\* \w{2}: the locale folders of the content tree
TwoLetterWords == {"fr", "en", "de"}
\* path.match(/^\/\w{2}\/pages\/(\w+)\//)
isIndexablePage(path) ==
  /\ Len(path) >= 5
  /\ path[1] = "/" /\ path[2] \in TwoLetterWords /\ path[3] = "/pages/" /\ path[5] = "/"
  /\ isSitemapKind(path[4])
shouldExcludeFromSitemap(doc) == doc.draft \/ doc.seo.noindex

\* the two content trees of the sitemap: the pattern of their paths and the
\* public prefix of their URLs
\* _path.match(/^\/(\w{2})\/pages\/site\/(.+)$/), _path.match(/^\/(\w{2})\/blog\/(.+)$/)
treeMatches(tree, path) ==
  IF tree = "site"
  THEN /\ Len(path) >= 6
       /\ path[1] = "/" /\ path[2] \in TwoLetterWords
       /\ SubSeq(path, 3, 5) = <<"/pages/", "site", "/">>
  ELSE /\ Len(path) >= 4
       /\ path[1] = "/" /\ path[2] \in TwoLetterWords /\ path[3] = "/blog/"
treeSlug(tree, path) ==
  IF tree = "site" THEN SubSeq(path, 6, Len(path)) ELSE SubSeq(path, 4, Len(path))
treeUrl(tree, slug) ==
  IF tree = "site" THEN <<"/">> \o slug ELSE <<"/", "blog", "/">> \o slug
\* documents.filter(...) of each tree
treeFilter(tree, documents) ==
  LET keep(doc) == /\ doc._path # <<>>
                   /\ IF tree = "site" THEN isIndexablePage(doc._path)
                      ELSE \E i \in 1..Len(doc._path) : doc._path[i] = "/blog/"
                   /\ ~shouldExcludeFromSitemap(doc)
  IN SelectSeq(documents, keep)

\* the keys of the Map that groups the pages of a tree by slug, in insertion order
groupSlugs(tree, pages) ==
  LET matching == SelectSeq(pages, LAMBDA doc : treeMatches(tree, doc._path))
  IN uniq([i \in 1..Len(matching) |-> treeSlug(tree, matching[i]._path)])

\* t._path?.startsWith(`/${code}/`), for a content path (whose token after the
\* locale folder opens with "/")
underLocale(path, code) ==
  /\ Len(path) >= 3
  /\ <<path[1], path[2]>> = <<"/">> \o code
  /\ path[3] \in {"/", "/pages/", "/blog/"}

\* the alternates of one slug: a link per locale that has a translation, and
\* x-default when the default locale has one
RECURSIVE translationLinks(_, _, _, _, _, _)
translationLinks(tree, slug, translations, codes, cfg, default) ==
  IF codes = <<>> THEN <<>>
  ELSE LET code == Head(codes)
           translationPath == IF code = default THEN treeUrl(tree, slug)
                              ELSE <<"/">> \o code \o treeUrl(tree, slug)
           hasTranslation == \E i \in 1..Len(translations) :
                                underLocale(translations[i]._path, code)
       IN (IF hasTranslation
           THEN <<Alternate(hreflangOf(cfg.localeMeta, code),
                            toAbsoluteUrl(cfg.siteUrl, translationPath))>>
           ELSE <<>>)
          \o translationLinks(tree, slug, translations, Tail(codes), cfg, default)
slugAlternates(tree, slug, translations, cfg) ==
  LET links == translationLinks(tree, slug, translations, cfg.locales, cfg, cfg.defaultLocale)
      hasDefaultTranslation ==
        \E i \in 1..Len(translations) : underLocale(translations[i]._path, cfg.defaultLocale)
  IN links \o (IF hasDefaultTranslation
               THEN <<Alternate(<<"x-default">>, toAbsoluteUrl(cfg.siteUrl, treeUrl(tree, slug)))>>
               ELSE <<>>)

\* the entries of one slug, one per translation
slugEntries(tree, slug, pages, cfg) ==
  LET translations ==
        SelectSeq(pages, LAMBDA doc : treeMatches(tree, doc._path)
                                      /\ treeSlug(tree, doc._path) = slug)
      pageAlternates == slugAlternates(tree, slug, translations, cfg)
  IN [i \in 1..Len(translations) |->
        LET pageLocale == <<translations[i]._path[2]>>
            urlPath == IF pageLocale = cfg.defaultLocale THEN treeUrl(tree, slug)
                       ELSE <<"/">> \o pageLocale \o treeUrl(tree, slug)
        IN SitemapEntry(toAbsoluteUrl(cfg.siteUrl, urlPath),
                        IF tree = "blog" THEN translations[i].lastmod ELSE UNDEFINED,
                        IF pageAlternates # <<>> THEN pageAlternates ELSE UNDEFINED)]
RECURSIVE entriesOfSlugs(_, _, _, _)
entriesOfSlugs(tree, slugs, pages, cfg) ==
  IF slugs = <<>> THEN <<>>
  ELSE slugEntries(tree, Head(slugs), pages, cfg)
       \o entriesOfSlugs(tree, Tail(slugs), pages, cfg)
treeEntries(tree, documents, cfg) ==
  LET pages == treeFilter(tree, documents)
  IN entriesOfSlugs(tree, groupSlugs(tree, pages), pages, cfg)

\* the static pages '/' and '/blog': the default-locale entry, then one entry per
\* other locale
RECURSIVE localizedStatic(_, _, _)
localizedStatic(page, codes, cfg) ==
  IF codes = <<>> THEN <<>>
  ELSE (IF Head(codes) # cfg.defaultLocale
        THEN LET localizedPath == switchLocalePath(page, Head(codes), cfg.defaultLocale,
                                                   cfg.locales)
             IN <<SitemapEntry(toAbsoluteUrl(cfg.siteUrl, localizedPath), UNDEFINED,
                               buildAlternates(localizedPath, cfg.siteUrl, cfg.locales,
                                               cfg.localeMeta, cfg.defaultLocale))>>
        ELSE <<>>)
       \o localizedStatic(page, Tail(codes), cfg)
staticEntriesOf(page, cfg) ==
  <<SitemapEntry(toAbsoluteUrl(cfg.siteUrl, page), UNDEFINED,
                 buildAlternates(page, cfg.siteUrl, cfg.locales, cfg.localeMeta,
                                 cfg.defaultLocale))>>
  \o localizedStatic(page, cfg.locales, cfg)
staticEntries(cfg) == staticEntriesOf(<<"/">>, cfg) \o staticEntriesOf(<<"/", "blog">>, cfg)

\* a.loc.localeCompare(b.loc) < 0 ("/" sorts before every letter)
UrlWords == <<"/", "blog", "de", "en", "fr", "hello", "https://example.com", "x">>
UrlRank(w) == CHOOSE i \in 1..Len(UrlWords) : UrlWords[i] = w
RECURSIVE UrlLess(_, _)
UrlLess(a, b) ==
  IF b = <<>> THEN FALSE
  ELSE IF a = <<>> THEN TRUE
  ELSE IF Head(a) = Head(b) THEN UrlLess(Tail(a), Tail(b))
  ELSE UrlRank(Head(a)) < UrlRank(Head(b))
\* entries.sort(...) (a stable sort)
RECURSIVE sortByLoc(_)
sortByLoc(entries) ==
  IF entries = <<>> THEN <<>>
  ELSE LET least == CHOOSE i \in 1..Len(entries) :
                      /\ \A j \in 1..Len(entries) : ~UrlLess(entries[j].loc, entries[i].loc)
                      /\ \A j \in 1..(i - 1) : entries[j].loc # entries[i].loc
       IN <<entries[least]>>
          \o sortByLoc([k \in 1..(Len(entries) - 1) |->
                          IF k < least THEN entries[k] ELSE entries[k + 1]])

\* getSitemapEntries: the configuration it reads, with the defaults of lines 168-174
sitemapConfig(runtime) ==
  LET default == IF runtime.defaultLocale # <<>> THEN runtime.defaultLocale ELSE <<"fr">>
      configLocales == IF runtime.locales.t = "undefined" THEN <<<<"fr">>, <<"en">>>>
                       ELSE runtime.locales.items
  IN [siteUrl |-> IF runtime.siteUrl # <<>> THEN runtime.siteUrl
                  ELSE <<"https://example.com">>,
      defaultLocale |-> default,
      locales |-> uniq(<<default>> \o configLocales),
      localeMeta |-> IF runtime.localeMeta.t = "undefined"
                     THEN (<<"fr">> :> <<"fr-FR">>) @@ (<<"en">> :> <<"en-US">>)
                     ELSE runtime.localeMeta.map]
\* JSON.stringify({ siteUrl, defaultLocale, locales, localeMeta })
cacheKeyOf(cfg) ==
  <<"siteUrl", cfg.siteUrl, "defaultLocale", cfg.defaultLocale, "locales", cfg.locales,
    "localeMeta", cfg.localeMeta>>
\* cache && cache.key === cacheKey && Date.now() - cache.at < CACHE_TTL
cacheIsValid(cached, cacheKey, time) ==
  cached # JNULL /\ cached.key = cacheKey /\ time - cached.at < CACHE_TTL
\* the entries of a call whose content query answered with documents
entriesWithContent(cfg, entries, documents) ==
  sortByLoc(entries \o treeEntries("site", documents, cfg)
            \o treeEntries("blog", documents, cfg))
\* the entries of a call whose content query threw (the catch of line 381)
entriesWithoutContent(entries) == sortByLoc(entries)

\* ------------------------------------------------------------------------
\* scripts/guard-pages: the CI guard over the content files, with the manifests
\* it reads (the entries whose schema is modelled)
\* ------------------------------------------------------------------------
ManifestEntry(id, slot, schema) == [t |-> "entry", id |-> id, slot |-> slot, schema |-> schema]
SECTIONS_MANIFEST == <<ManifestEntry(<<"hero", ".", "split">>, "section", HeroSplitSchema)>>
SHELLS_MANIFEST ==
  <<ManifestEntry(<<"header", ".", "default">>, "header", HeaderDefaultSchema),
    ManifestEntry(<<"header", ".", "minimal">>, "header", HeaderMinimalSchema),
    ManifestEntry(<<"footer", ".", "default">>, "footer", FooterDefaultSchema)>>

hasSectionId(id) == MapHas(SECTIONS_MANIFEST, id)
hasShellId(id) == MapHas(SHELLS_MANIFEST, id)
\* shells.manifest.ts: shellId.startsWith(`${slot}.`)
manifestIsValidShellSlot(shellId, slot) == StartsWith(shellId, <<slot, ".">>)

\* issues.map(i => `${i.path.join('.')}: ${i.message}`).join('; ')
RECURSIVE ManifestIssueLines(_)
ManifestIssueLines(issues) ==
  IF issues = <<>> THEN <<>>
  ELSE <<Head(issues).path \o <<": ">> \o Head(issues).message>>
       \o ManifestIssueLines(Tail(issues))

\* validateSectionProps / validateShellProps of the manifests
manifestValidateProps(manifest, what, id, props) ==
  IF ~MapHas(manifest, id)
  THEN [success |-> FALSE, error |-> <<what, " \"">> \o id \o <<"\" not found in manifest">>]
  ELSE LET parsed == safeParse(MapGet(manifest, id).schema, props)
       IN IF parsed.success THEN [success |-> TRUE, error |-> <<>>]
          ELSE [success |-> FALSE,
                error |-> Join(ManifestIssueLines(parsed.issues), <<"; ">>)]

\* how an id that may not be a string prints in a template literal
IdText(id) == IF id.t = "string" THEN id.s ELSE <<"[", id.t, "]">>

\* guard-pages: normalizeShellComponent (null for null and undefined)
guardNormalizeShellComponent(raw) ==
  IF raw.t \in {"null", "undefined"} THEN JNULL
  ELSE IF raw.t = "string" THEN [t |-> "object", id |-> raw, props |-> JRec(<<>>)]
  ELSE IF raw.t = "object"
  THEN [t |-> "object", id |-> raw.id, props |-> Coalesce(raw.props, JRec(<<>>))]
  ELSE [t |-> "object", id |-> UNDEFINED, props |-> JRec(<<>>)]

\* validatePage, lines 388-408: kind, seo and sections
guardStructureErrors(page, pathKind) ==
  (IF ~Truthy(page.kind) THEN <<<<"Missing required field: kind">>>>
   ELSE IF ~(page.kind.t = "string" /\ page.kind.s \in PageKinds)
   THEN <<<<"Invalid kind \"">> \o IdText(page.kind)
          \o <<"\" - must be one of: site, p, demo">>>>
   ELSE IF page.kind.s # pathKind
   THEN <<<<"Path/kind mismatch: file is in \"">> \o pathKind
          \o <<"\" folder but kind is \"">> \o page.kind.s \o <<"\"">>>>
   ELSE <<>>)
  \o (IF page.seo.t = "object" /\ Truthy(page.seo.title) THEN <<>>
      ELSE <<<<"Missing required field: seo.title">>>>)
  \o (IF page.seo.t = "object" /\ Truthy(page.seo.description) THEN <<>>
      ELSE <<<<"Missing required field: seo.description">>>>)
  \o (IF page.sections.t = "array" /\ Len(page.sections.items) > 0 THEN <<>>
      ELSE <<<<"Missing or empty sections array (at least 1 section required)">>>>)

\* validatePage, lines 427-455: one turn of the loop over the sections (no input
\* of the model names a pack)
guardSectionErrors(section, i) ==
  LET label == <<"Section[", ToString(i - 1), "]">>
  IN IF ~(section.t = "object" /\ Truthy(section.id)) THEN <<label \o <<": Missing id">>>>
     ELSE IF ~hasSectionId(IdText(section.id))
     THEN <<label \o <<" (">> \o IdText(section.id) \o <<"): Unknown section id">>>>
     ELSE LET propsResult == manifestValidateProps(SECTIONS_MANIFEST, "Section",
                                                   section.id.s,
                                                   Coalesce(section.props, JRec(<<>>)))
          IN IF propsResult.success THEN <<>>
             ELSE <<label \o <<" (">> \o section.id.s \o <<"): Invalid props - ">>
                    \o propsResult.error>>

RECURSIVE guardSectionsErrors(_, _)
guardSectionsErrors(items, i) ==
  IF i > Len(items) THEN <<>>
  ELSE guardSectionErrors(items[i], i) \o guardSectionsErrors(items, i + 1)

\* validatePage, lines 466-504: one turn of the loop over the two slots
guardShellErrors(shell, slot) ==
  LET shellComponent == guardNormalizeShellComponent(shell[slot])
  IN IF shellComponent = JNULL THEN <<>>
     ELSE IF ~Truthy(shellComponent.id) THEN <<>>
     ELSE IF ~hasShellId(IdText(shellComponent.id))
     THEN <<<<"shell.", slot, ": ", "Unknown shell id \"">> \o IdText(shellComponent.id)
            \o <<"\"">>>>
     ELSE LET shellId == shellComponent.id.s
              propsResult == manifestValidateProps(SHELLS_MANIFEST, "Shell", shellId,
                                                   shellComponent.props)
          IN (IF ~manifestIsValidShellSlot(shellId, slot)
              THEN <<<<"shell.", slot, ": ", "Invalid shell \"">> \o shellId
                     \o <<"\" - ", slot, " slot requires shell id starting with \"",
                          slot, ".\"">>>>
              ELSE <<>>)
             \o (IF propsResult.success THEN <<>>
                 ELSE <<<<"shell.", slot, " (">> \o shellId \o <<"): Invalid props - ">>
                        \o propsResult.error>>)

\* validatePage, lines 510-545: the strict mode rule for p and demo pages
guardStrictErrors(page, shell, shellStrictMode) ==
  LET isPrivateKind == page.kind.t = "string" /\ page.kind.s \in {<<"p">>, <<"demo">>}
      set(slot) == guardNormalizeShellComponent(shell[slot]) # JNULL
                   /\ Truthy(guardNormalizeShellComponent(shell[slot]).id)
      rule(slot) == IF set(slot)
                    THEN <<<<"shell.", slot, " must be null for ">> \o page.kind.s
                           \o <<" pages when NUXT_PUBLIC_SHELL_STRICT_PRIVATE=true">>>>
                    ELSE <<>>
  IN IF isPrivateKind /\ shellStrictMode THEN rule("header") \o rule("footer") ELSE <<>>

\* validatePage: the errors of one content file (warnings do not fail the guard)
validatePage(page, pathKind, shellStrictMode) ==
  LET shell == IF page.shell.t = "object" THEN page.shell
               ELSE [t |-> "object", header |-> UNDEFINED, footer |-> UNDEFINED]
  IN guardStructureErrors(page, pathKind)
     \o (IF page.sections.t = "array" THEN guardSectionsErrors(page.sections.items, 1)
         ELSE <<>>)
     \o guardShellErrors(shell, "header")
     \o guardShellErrors(shell, "footer")
     \o guardStrictErrors(page, shell, shellStrictMode)

\* ------------------------------------------------------------------------
\* Inputs: queries, configurations and stored documents
\* ------------------------------------------------------------------------
Locales == {<<"fr">>, <<"en">>, <<"de">>}
QueryKinds == PageKinds \cup {<<"blog">>}
QuerySlugs == {<<>>, <<"index">>, <<"x">>}
QueryLocales == Locales \cup {<<>>}
Queries == [kind : QueryKinds, slug : QuerySlugs, locale : QueryLocales]

Configs == [defaultLocale : {<<>>, <<"en">>}, shellStrictPrivate : BOOLEAN, isDev : BOOLEAN]

SeqsUpTo(S, n) == UNION {[1..k -> S] : k \in 0..n}

ShellObject(id, props) == [t |-> "object", id |-> id, props |-> props]
HeaderChoices ==
  {UNDEFINED, JNULL, JNUMBER,
   JStr(<<"header", ".", "default">>), JStr(<<"footer", ".", "default">>),
   ShellObject(JStr(<<"header", ".", "default">>), UNDEFINED),
   ShellObject(JStr(<<>>), UNDEFINED),
   ShellObject(JNUMBER, UNDEFINED),
   ShellObject(UNDEFINED, JRec(<<>>))}
FooterChoices ==
  {UNDEFINED, JNULL, JStr(<<"footer", ".", "default">>),
   ShellObject(JStr(<<"header", ".", "minimal">>), JRec(<<>>))}
ShellChoices == [t : {"object"}, header : HeaderChoices, footer : FooterChoices]

SectionObject(id, props) ==
  [t |-> "object", id |-> id, pack |-> UNDEFINED, props |-> props, overrides |-> UNDEFINED]
HeroSection ==
  SectionObject(JStr(<<"hero", ".", "split">>),
                JRec(<<[k |-> <<"title">>, v |-> JStr(<<"Welcome">>)]>>))
SectionChoices == {HeroSection, SectionObject(JStr(<<>>), UNDEFINED)}
SectionsChoices == {UNDEFINED} \cup {JArr(items) : items \in SeqsUpTo(SectionChoices, MaxSections)}

SeoObject(title, description) ==
  [t |-> "object", title |-> title, description |-> description,
   image |-> UNDEFINED, noindex |-> UNDEFINED]
GoodSeo == SeoObject(JStr(<<"T">>), JStr(<<"D">>))
SeoChoices ==
  {UNDEFINED, GoodSeo, SeoObject(JStr(<<>>), JStr(<<"D">>)),
   SeoObject(JStr(<<"T">>), JStr(<<>>)), SeoObject(JStr(<<"T">>), UNDEFINED),
   [GoodSeo EXCEPT !.noindex = JBool(FALSE)], [GoodSeo EXCEPT !.noindex = JBool(TRUE)]}

KindChoices == {UNDEFINED, JStr(<<"p">>), JStr(<<"blog">>)}

Body(kind, seo, sections, shell) ==
  [kind |-> kind, slug |-> UNDEFINED, packKey |-> UNDEFINED, themeOverrides |-> UNDEFINED,
   seo |-> seo, shell |-> shell, sections |-> sections]
BaseBody == Body(UNDEFINED, GoodSeo, JArr(<<HeroSection>>), UNDEFINED)
\* bodies that vary the shell slots of an otherwise valid page
ShellBodies == {Body(UNDEFINED, GoodSeo, JArr(<<HeroSection>>), sh) : sh \in ShellChoices}
\* bodies that vary kind, seo and sections
FieldBodies ==
  {Body(k, seo, secs, sh) :
     k \in KindChoices, seo \in SeoChoices, secs \in SectionsChoices,
     sh \in {UNDEFINED, [t |-> "object", header |-> JStr(<<"footer", ".", "default">>),
                         footer |-> UNDEFINED]}}
Bodies == ShellBodies \cup FieldBodies

HeroProps(title) == JRec(<<[k |-> <<"title">>, v |-> title]>>)
\* sections the loader accepts: valid, with a css override, with an empty title,
\* without props, and of an id that is not registered
RenderSectionChoices ==
  {HeroSection,
   [HeroSection EXCEPT !.overrides = JRec(<<[k |-> <<"--", "accent">>, v |-> JStr(<<"red">>)]>>)],
   SectionObject(JStr(<<"hero", ".", "split">>), HeroProps(JStr(<<>>))),
   SectionObject(JStr(<<"hero", ".", "split">>), UNDEFINED),
   SectionObject(JStr(<<"hero", ".", "ghost">>), UNDEFINED)}
RenderHeaderChoices ==
  {UNDEFINED, JStr(<<"header", ".", "minimal">>),
   ShellObject(JStr(<<"header", ".", "minimal">>),
               JRec(<<[k |-> <<"logoText">>, v |-> JNUMBER]>>)),
   JStr(<<"header", ".", "ghost">>)}
RenderFooterChoices ==
  {JNULL, JStr(<<"footer", ".", "default">>), JStr(<<"footer", ".", "ghost">>)}
RenderBodies ==
  {Body(UNDEFINED, GoodSeo, JArr(secs),
        [t |-> "object", header |-> h, footer |-> f]) :
     secs \in SeqsUpTo(RenderSectionChoices, MaxSections) \ {<<>>},
     h \in RenderHeaderChoices, f \in RenderFooterChoices}

CssVar(name, value) == [k |-> <<"--", name>>, v |-> JStr(<<value>>)]
\* sections with and without a pack of their own (known, unknown, empty) and
\* with and without overrides
ThemeSectionChoices ==
  {[HeroSection EXCEPT !.pack = pack, !.overrides = overrides] :
     pack \in {UNDEFINED, JStr(<<"pizza">>), JStr(<<"ghost">>), JStr(<<>>)},
     overrides \in {UNDEFINED, JRec(<<CssVar("accent", "red")>>)}}
\* pages with and without a pack (known, unknown) and with and without page
\* overrides, one of them with a key the schema refuses
ThemeBodies ==
  {[Body(UNDEFINED, GoodSeo, JArr(<<section>>), UNDEFINED) EXCEPT
      !.packKey = packKey, !.themeOverrides = themeOverrides] :
     section \in ThemeSectionChoices,
     packKey \in {UNDEFINED, JStr(<<"interweb">>), JStr(<<"ghost">>)},
     themeOverrides \in {UNDEFINED, JRec(<<CssVar("brand", "blue")>>),
                         JRec(<<[k |-> <<"brand">>, v |-> JStr(<<"blue">>)]>>)}}

\* a stored document: Nuxt Content metadata (_path) plus the YAML body
Doc(path, body) ==
  [t |-> "object", _path |-> path, kind |-> body.kind, slug |-> body.slug,
   packKey |-> body.packKey, themeOverrides |-> body.themeOverrides, seo |-> body.seo,
   shell |-> body.shell, sections |-> body.sections]
\* the page (kind, slug), stored with the same body in the locales locs
Store(kind, slug, locs, body) == {Doc(buildContentPath(kind, slug, l), body) : l \in locs}

\* ------------------------------------------------------------------------
\* State
\* ------------------------------------------------------------------------
VARIABLES
  config,          \* runtimeConfig.public and NODE_ENV
  content,         \* the content store: documents indexed by _path
  query,           \* query parameters of the /api/__page__/get request
  pc,              \* position of the request in the handler and in loadPage
  contentPath,     \* loadPage: contentPath
  rawPage,         \* loadPage: rawPage
  normalizedShell, \* loadPage: normalizedShell
  inflight,        \* storage queries issued and not yet answered
  calls,           \* every storage query issued by this request, in order
  result,          \* what loadPage returned or threw
  response,        \* what the API handler answered
  logs,            \* console output of the request
  sectionRegistry, \* SectionRegistry.ts: registry
  shellRegistry,   \* ShellRegistry.ts: registry
  page,            \* the PageDef the route hands to PageRenderer
  side,            \* where the components run: "server" or "client"
  renderPc,        \* position of PageRenderer in its template
  renderIndex,     \* v-for index (1-based) of the next section
  markup,          \* the blocks emitted so far, in document order
  renderError,     \* the error that aborted the render, or NoThrow
  head,            \* what the route handed to setPageSeo
  scope,           \* the ThemeScope block the route wraps the page in
  renderLogs,      \* console output of the route and of the components
  script,          \* the register calls of the two registry module bodies, in order
  registered,      \* how many of them have run
  loaded,          \* the module bodies have run to their end: the exports are usable
  console,         \* console output of the registry modules
  served,          \* the last answer of a registry export or block renderer
  cache,           \* sitemap.ts: the process-level cache, or null
  now,             \* Date.now()
  refresh          \* the getSitemapEntries calls of the process, by request

loaderVars == <<config, content, query, pc, contentPath, rawPage, normalizedShell,
                inflight, calls, result, response, logs>>
renderVars == <<sectionRegistry, shellRegistry, page, side, renderPc, renderIndex,
                markup, renderError, head, scope, renderLogs>>
pageVars == <<page, side, renderPc, renderIndex, markup, renderError, head, scope,
              renderLogs>>
moduleVars == <<script, registered, loaded, console, served>>
sitemapVars == <<cache, now, refresh>>
vars == <<loaderVars, renderVars, moduleVars, sitemapVars>>

Pending == [type |-> "pending"]
NoResponse == [status |-> 0]

\* no sitemap has been asked for yet
Requests == {"r1", "r2"}
IdleRefresh == [pc |-> "idle"]
SitemapIdle ==
  /\ cache = JNULL
  /\ now = 0
  /\ refresh = [r \in Requests |-> IdleRefresh]

LoaderIdle ==
  /\ pc = "requested"
  /\ contentPath = <<>>
  /\ rawPage = UNDEFINED
  /\ normalizedShell = [header |-> UNDEFINED, footer |-> UNDEFINED]
  /\ inflight = {}
  /\ calls = <<>>
  /\ result = Pending
  /\ response = NoResponse
  /\ logs = <<>>

NoHead == [t |-> "none"]
NotServed == [op |-> "none"]
RegisterCall(registry, entry) == [registry |-> registry, entry |-> entry]
\* the register calls of SectionRegistry.ts, then of ShellRegistry.ts
ModuleScript ==
  [i \in 1..Len(SectionRegistrations) |-> RegisterCall("section", SectionRegistrations[i])]
  \o [i \in 1..Len(ShellRegistrations) |-> RegisterCall("shell", ShellRegistrations[i])]

\* nothing rendered yet
PageIdle ==
  /\ page = UNDEFINED
  /\ side = "none"
  /\ renderPc = "idle"
  /\ renderIndex = 0
  /\ markup = <<>>
  /\ renderError = NoThrow
  /\ head = NoHead
  /\ scope = NoScope
  /\ renderLogs = <<>>

\* the registries as module initialisation leaves them; nothing rendered yet
RenderIdle ==
  /\ sectionRegistry = RegisteredSections
  /\ shellRegistry = RegisteredShells
  /\ script = ModuleScript
  /\ registered = Len(ModuleScript)
  /\ loaded = TRUE
  /\ console = <<>>
  /\ served = NotServed
  /\ page = UNDEFINED
  /\ side = "none"
  /\ renderPc = "idle"
  /\ renderIndex = 0
  /\ markup = <<>>
  /\ renderError = NoThrow
  /\ head = NoHead
  /\ scope = NoScope
  /\ renderLogs = <<>>

\* any query and configuration against a store that holds the requested page,
\* with a valid body, in any set of locales
InitFetch ==
  /\ query \in Queries
  /\ config \in Configs
  /\ \E locs \in SUBSET Locales : content = Store(query.kind, query.slug, locs, BaseBody)
  /\ LoaderIdle
  /\ RenderIdle
  /\ SitemapIdle

\* a default-locale query for a stored page with any body
InitValidate ==
  /\ query \in [kind : PageKinds, slug : {<<"x">>}, locale : {<<"fr">>}]
  /\ config \in [defaultLocale : {<<>>}, shellStrictPrivate : BOOLEAN, isDev : BOOLEAN]
  /\ \E body \in Bodies : content = Store(query.kind, query.slug, {<<"fr">>}, body)
  /\ LoaderIdle
  /\ RenderIdle
  /\ SitemapIdle

\* a site page whose sections and shells pass the loader but not all of which
\* the registries can render
InitRender ==
  /\ query = [kind |-> <<"site">>, slug |-> <<"x">>, locale |-> <<"fr">>]
  /\ config \in [defaultLocale : {<<>>}, shellStrictPrivate : {FALSE}, isDev : BOOLEAN]
  /\ \E body \in RenderBodies : content = Store(query.kind, query.slug, {<<"fr">>}, body)
  /\ LoaderIdle
  /\ RenderIdle
  /\ SitemapIdle

\* a site page with packs and overrides at page and section level
InitTheme ==
  /\ query = [kind |-> <<"site">>, slug |-> <<"x">>, locale |-> <<"fr">>]
  /\ config \in [defaultLocale : {<<>>}, shellStrictPrivate : {FALSE}, isDev : BOOLEAN]
  /\ \E body \in ThemeBodies : content = Store(query.kind, query.slug, {<<"fr">>}, body)
  /\ LoaderIdle
  /\ RenderIdle
  /\ SitemapIdle

Init == InitFetch \/ InitValidate \/ InitRender \/ InitTheme

\* ------------------------------------------------------------------------
\* /api/__page__/get and loadPage
\* ------------------------------------------------------------------------
isDev == config.isDev
defaultLocale == getRuntimeI18n(config).defaultLocale

\* get.get.ts, lines 21-40: the 400 the handler throws for a bad query, or NoThrow
validateQuery(q) ==
  IF q.kind = <<>> \/ q.kind \notin PageKinds
  THEN Thrown(400, <<"Missing or invalid \"kind\" parameter">>)
  ELSE IF q.slug = <<>> THEN Thrown(400, <<"Missing \"slug\" parameter">>)
  ELSE IF q.locale = <<>> THEN Thrown(400, <<"Missing \"locale\" parameter">>)
  ELSE NoThrow

\* the handler rejects the query before it calls loadPage
ApiReject ==
  /\ pc = "requested"
  /\ validateQuery(query).type = "throw"
  /\ response' = [status |-> validateQuery(query).statusCode,
                  statusMessage |-> validateQuery(query).statusMessage]
  /\ pc' = "responded"
  /\ UNCHANGED <<renderVars, moduleVars, sitemapVars>>
  /\ UNCHANGED <<config, content, query, contentPath, rawPage, normalizedShell,
                 inflight, calls, result, logs>>

\* loadPage, line 298
ResolvePath ==
  /\ pc = "requested"
  /\ validateQuery(query).type = "ok"
  /\ contentPath' = buildContentPath(query.kind, query.slug, query.locale)
  /\ pc' = "path_resolved"
  /\ UNCHANGED <<renderVars, moduleVars, sitemapVars>>
  /\ UNCHANGED <<config, content, query, rawPage, normalizedShell, inflight, calls,
                 result, response, logs>>

\* the fallback test without the comparison with the default locale
needsFallback_AnyLocale(found, locale, default) == ~Truthy(found)

\* loadPage, line 304
needsFallback(found, locale, default) == ~Truthy(found) /\ locale # default
\* loadPage, line 305
fallbackPath == buildContentPath(query.kind, query.slug, defaultLocale)

\* both queries issued together (Promise.all) instead of one after the other
QueryPrimary_Parallel ==
  /\ pc = "path_resolved"
  /\ inflight' = inflight \cup {contentPath, fallbackPath}
  /\ calls' = Append(calls, contentPath)
  /\ pc' = "await_primary"
  /\ UNCHANGED <<renderVars, moduleVars, sitemapVars>>
  /\ UNCHANGED <<config, content, query, contentPath, rawPage, normalizedShell,
                 result, response, logs>>

\* loadPage, line 301: the primary query is issued
QueryPrimary ==
  /\ pc = "path_resolved"
  /\ inflight' = inflight \cup {contentPath}
  /\ calls' = Append(calls, contentPath)
  /\ pc' = "await_primary"
  /\ UNCHANGED <<renderVars, moduleVars, sitemapVars>>
  /\ UNCHANGED <<config, content, query, contentPath, rawPage, normalizedShell,
                 result, response, logs>>

\* loadPage, lines 301-306: the primary query answers; on a miss in a non-default
\* locale the fallback query is issued in the same turn
PrimaryAnswered ==
  /\ pc = "await_primary"
  /\ LET found == findOne(content, contentPath)
     IN /\ rawPage' = found
        /\ IF needsFallback(found, query.locale, defaultLocale)
           THEN /\ inflight' = (inflight \ {contentPath}) \cup {fallbackPath}
                /\ calls' = Append(calls, fallbackPath)
                /\ pc' = "await_fallback"
           ELSE /\ inflight' = inflight \ {contentPath}
                /\ calls' = calls
                /\ pc' = "fetched"
  /\ UNCHANGED <<renderVars, moduleVars, sitemapVars>>
  /\ UNCHANGED <<config, content, query, contentPath, normalizedShell, result,
                 response, logs>>

\* loadPage, line 306: the fallback query answers
FallbackAnswered ==
  /\ pc = "await_fallback"
  /\ rawPage' = findOne(content, fallbackPath)
  /\ inflight' = inflight \ {fallbackPath}
  /\ pc' = "fetched"
  /\ UNCHANGED <<renderVars, moduleVars, sitemapVars>>
  /\ UNCHANGED <<config, content, query, contentPath, normalizedShell, calls, result,
                 response, logs>>

\* loadPage, lines 310-312
ReturnNotFound ==
  /\ pc = "fetched"
  /\ ~Truthy(rawPage)
  /\ result' = [type |-> "null"]
  /\ pc' = "returned"
  /\ UNCHANGED <<renderVars, moduleVars, sitemapVars>>
  /\ UNCHANGED <<config, content, query, contentPath, rawPage, normalizedShell,
                 inflight, calls, response, logs>>

\* loadPage, line 315
Normalize ==
  /\ pc = "fetched"
  /\ Truthy(rawPage)
  /\ normalizedShell' = normalizeShell(rawPage.shell)
  /\ pc' = "normalized"
  /\ UNCHANGED <<renderVars, moduleVars, sitemapVars>>
  /\ UNCHANGED <<config, content, query, contentPath, rawPage, inflight, calls,
                 result, response, logs>>

\* loadPage, lines 320-344
StrictMode ==
  /\ pc = "normalized"
  /\ normalizedShell' =
       applyStrictPrivate(normalizedShell, query.kind, getShellStrictPrivate(config))
  /\ logs' = logs \o strictWarnings(normalizedShell, query.kind,
                                    getShellStrictPrivate(config), isDev)
  /\ pc' = "strict_done"
  /\ UNCHANGED <<renderVars, moduleVars, sitemapVars>>
  /\ UNCHANGED <<config, content, query, contentPath, rawPage, inflight, calls,
                 result, response>>

\* loadPage, line 349
ValidateSlots ==
  /\ pc = "strict_done"
  /\ LET thrown == validateShellSlots(normalizedShell, isDev, contentPath)
     IN IF thrown.type = "throw"
        THEN result' = thrown /\ pc' = "returned"
        ELSE result' = result /\ pc' = "slots_ok"
  /\ UNCHANGED <<renderVars, moduleVars, sitemapVars>>
  /\ UNCHANGED <<config, content, query, contentPath, rawPage, normalizedShell,
                 inflight, calls, response, logs>>

\* loadPage, lines 352-378
ValidateSchema ==
  /\ pc = "slots_ok"
  /\ LET parsed == PageDefSchema(buildPageData(rawPage, query.kind, query.slug,
                                               normalizedShell))
     IN IF parsed.success
        THEN /\ result' = [type |-> "page", page |-> parsed.data]
             /\ logs' = logs
             /\ pc' = "validated"
        ELSE /\ result' = Thrown(500, InvalidPageMessage(isDev, parsed.issues))
             /\ logs' = IF isDev THEN Append(logs, "Invalid page definition") ELSE logs
             /\ pc' = "returned"
  /\ UNCHANGED <<renderVars, moduleVars, sitemapVars>>
  /\ UNCHANGED <<config, content, query, contentPath, rawPage, normalizedShell,
                 inflight, calls, response>>

\* loadPage, line 380
ReturnPage ==
  /\ pc = "validated"
  /\ pc' = "returned"
  /\ UNCHANGED <<renderVars, moduleVars, sitemapVars>>
  /\ UNCHANGED <<config, content, query, contentPath, rawPage, normalizedShell,
                 inflight, calls, result, response, logs>>

\* the handler without its null check: a null page is returned as the body
respond_NoNullCheck(res, q) ==
  CASE res.type = "throw" ->
         [status |-> res.statusCode, statusMessage |-> res.statusMessage]
    [] OTHER -> [status |-> 200, body |-> res]

\* get.get.ts, lines 43-52: 404 for null, the page otherwise; a throw of loadPage
\* propagates as the response
respond(res, q) ==
  CASE res.type = "null" ->
         [status |-> 404,
          statusMessage |-> <<"Page not found: ">> \o q.kind \o <<"/">> \o q.slug]
    [] res.type = "throw" ->
         [status |-> res.statusCode, statusMessage |-> res.statusMessage]
    [] OTHER -> [status |-> 200, body |-> res.page]

ApiRespond ==
  /\ pc = "returned"
  /\ response' = respond(result, query)
  /\ pc' = "responded"
  /\ UNCHANGED <<renderVars, moduleVars, sitemapVars>>
  /\ UNCHANGED <<config, content, query, contentPath, rawPage, normalizedShell,
                 inflight, calls, result, logs>>

\* ------------------------------------------------------------------------
\* Page route and PageRenderer
\* ------------------------------------------------------------------------
\* usePageLoader.ts, loadPageOrThrow: whatever the API answered but a page becomes
\* a 404.  The route runs on the server or on the client.
LoadPageOrThrow ==
  /\ pc = "responded"
  /\ renderPc = "idle"
  /\ validateQuery(query).type = "ok"
  /\ \E where \in {"server", "client"} : side' = where
  /\ IF response.status = 200
     THEN /\ page' = response.body
          /\ renderPc' = "packs"
          /\ renderError' = renderError
     ELSE /\ page' = page
          /\ renderPc' = "error"
          /\ renderError' = Thrown(404, <<"Page not found: ">> \o query.kind
                                        \o <<"/">> \o query.slug)
  /\ UNCHANGED <<sectionRegistry, shellRegistry, renderIndex, markup, head, scope,
                 renderLogs>>
  /\ UNCHANGED <<loaderVars, moduleVars, sitemapVars>>

\* an error thrown by the setup of a child aborts the render of the page
Abort(thrown) ==
  /\ renderError' = thrown
  /\ markup' = <<>>
  /\ renderPc' = "error"
  /\ renderIndex' = renderIndex

\* route setup: assertAllPacksKnown(getPacksUsed(page), `page <kind>/<slug>`)
AssertPacks ==
  /\ renderPc = "packs"
  /\ LET checked == assertAllPacksKnown(isDev, side = "server", getPacksUsed(page), "page")
     IN /\ renderLogs' = renderLogs \o checked.console
        /\ IF checked.thrown.type = "throw" THEN Abort(checked.thrown)
           ELSE /\ renderPc' = "seo"
                /\ UNCHANGED <<renderError, markup, renderIndex>>
  /\ UNCHANGED <<sectionRegistry, shellRegistry, page, side, head, scope>>
  /\ UNCHANGED <<loaderVars, moduleVars, sitemapVars>>

\* route setup: usePageAlternates (site and home routes only), then setPageSeo
SetPageSeo ==
  /\ renderPc = "seo"
  /\ head' = [t |-> "seo", title |-> page.seo.title, description |-> page.seo.description,
              noindex |-> forceNoindex(query.kind, page.seo.noindex),
              alternates |-> IF query.kind = <<"site">>
                             THEN alternatesOf(content, alternateLocales, query.kind,
                                               query.slug, query.locale, defaultLocale)
                             ELSE <<>>]
  /\ renderPc' = "scope"
  /\ UNCHANGED <<sectionRegistry, shellRegistry, page, side, renderIndex, markup,
                 renderError, scope, renderLogs>>
  /\ UNCHANGED <<loaderVars, moduleVars, sitemapVars>>

\* route template: <ThemeScope :pack :packs-used :overrides>
MountThemeScope ==
  /\ renderPc = "scope"
  /\ LET setup == themeScopeSetup(isDev, side = "server", page.packKey,
                                  getPacksUsed(page), page.themeOverrides)
     IN /\ renderLogs' = renderLogs \o setup.console
        /\ IF setup.thrown.type = "throw"
           THEN Abort(setup.thrown) /\ scope' = scope
           ELSE /\ scope' = themeScopeTemplate(page.packKey, page.themeOverrides)
                /\ renderPc' = "header"
                /\ UNCHANGED <<renderError, markup, renderIndex>>
  /\ UNCHANGED <<sectionRegistry, shellRegistry, page, side, head>>
  /\ UNCHANGED <<loaderVars, moduleVars, sitemapVars>>

\* PageRenderer, line 24: <ShellRenderer slot="header">
RenderHeader ==
  /\ renderPc = "header"
  /\ LET thrown == shellThrows(isDev, side = "server", shellRegistry,
                               page.shell.header, "header")
     IN IF thrown.type = "throw" THEN Abort(thrown)
        ELSE /\ markup' = Append(markup, shellTemplate(isDev, shellRegistry,
                                                       page.shell.header, "header"))
             /\ renderPc' = "sections"
             /\ renderIndex' = 1
             /\ renderError' = renderError
  /\ UNCHANGED <<sectionRegistry, shellRegistry, page, side, head, scope, renderLogs>>
  /\ UNCHANGED <<loaderVars, moduleVars, sitemapVars>>

\* a PageRenderer that hands the page overrides to each section as its own
RenderSection_PageOverrides ==
  /\ renderPc = "sections"
  /\ renderIndex <= Len(page.sections.items)
  /\ LET section == [page.sections.items[renderIndex] EXCEPT
                       !.overrides = page.themeOverrides]
         thrown == sectionThrows(isDev, sectionRegistry, section)
     IN IF thrown.type = "throw" THEN Abort(thrown) /\ renderLogs' = renderLogs
        ELSE /\ markup' = Append(markup, sectionTemplate(isDev, sectionRegistry, section,
                                                         page.packKey))
             /\ renderLogs' = renderLogs \o sectionStyleWarnings(isDev, section)
             /\ renderIndex' = renderIndex + 1
             /\ renderPc' = renderPc
             /\ renderError' = renderError
  /\ UNCHANGED <<sectionRegistry, shellRegistry, page, side, head, scope>>
  /\ UNCHANGED <<loaderVars, moduleVars, sitemapVars>>

\* PageRenderer, lines 34-39: <SectionRenderer v-for :section :page-pack>
RenderSection ==
  /\ renderPc = "sections"
  /\ renderIndex <= Len(page.sections.items)
  /\ LET section == page.sections.items[renderIndex]
         thrown == sectionThrows(isDev, sectionRegistry, section)
     IN IF thrown.type = "throw" THEN Abort(thrown) /\ renderLogs' = renderLogs
        ELSE /\ markup' = Append(markup, sectionTemplate(isDev, sectionRegistry, section,
                                                         page.packKey))
             /\ renderLogs' = renderLogs \o sectionStyleWarnings(isDev, section)
             /\ renderIndex' = renderIndex + 1
             /\ renderPc' = renderPc
             /\ renderError' = renderError
  /\ UNCHANGED <<sectionRegistry, shellRegistry, page, side, head, scope>>
  /\ UNCHANGED <<loaderVars, moduleVars, sitemapVars>>

\* PageRenderer, line 43: <ShellRenderer slot="footer">
RenderFooter ==
  /\ renderPc = "sections"
  /\ renderIndex > Len(page.sections.items)
  /\ LET thrown == shellThrows(isDev, side = "server", shellRegistry,
                               page.shell.footer, "footer")
     IN IF thrown.type = "throw" THEN Abort(thrown)
        ELSE /\ markup' = Append(markup, shellTemplate(isDev, shellRegistry,
                                                       page.shell.footer, "footer"))
             /\ renderPc' = "done"
             /\ renderIndex' = renderIndex
             /\ renderError' = renderError
  /\ UNCHANGED <<sectionRegistry, shellRegistry, page, side, head, scope, renderLogs>>
  /\ UNCHANGED <<loaderVars, moduleVars, sitemapVars>>

Next ==
  \/ ApiReject
  \/ ResolvePath
  \/ QueryPrimary
  \/ PrimaryAnswered
  \/ FallbackAnswered
  \/ ReturnNotFound
  \/ Normalize
  \/ StrictMode
  \/ ValidateSlots
  \/ ValidateSchema
  \/ ReturnPage
  \/ ApiRespond
  \/ LoadPageOrThrow
  \/ AssertPacks
  \/ SetPageSeo
  \/ MountThemeScope
  \/ RenderHeader
  \/ RenderSection
  \/ RenderFooter

Spec == Init /\ [][Next]_vars

\* ------------------------------------------------------------------------
\* The registry modules from their first statement: the register calls of the
\* module bodies, then the exports and the block renderers that read the
\* registries
\* ------------------------------------------------------------------------
MaxRegistrations == 3

\* register calls other than the shipped ones: a second entry for an id, an
\* entry whose component resolves to nothing, a shell id that contradicts its slot
SectionCallChoices ==
  {RegisterCall("section", e) :
     e \in {SectionEntry(<<"hero", ".", "split">>, AsyncComponent(<<"hero", ".", "split">>),
                         HeroSplitSchema, Fixtures(2)),
            SectionEntry(<<"hero", ".", "split">>, UNDEFINED, HeroSplitSchema, Fixtures(1)),
            SectionEntry(<<"faq", ".", "simple">>, AsyncComponent(<<"faq", ".", "simple">>),
                         OpaqueSchema, Fixtures(2))}}
ShellCallChoices ==
  {RegisterCall("shell", e) :
     e \in {ShellEntry(<<"header", ".", "default">>, "header",
                       AsyncComponent(<<"header", ".", "default">>), HeaderDefaultSchema,
                       Fixtures(2)),
            ShellEntry(<<"header", ".", "default">>, "header", UNDEFINED,
                       HeaderDefaultSchema, Fixtures(1)),
            ShellEntry(<<"footer", ".", "default">>, "header",
                       AsyncComponent(<<"footer", ".", "default">>), HeaderMinimalSchema,
                       Fixtures(1))}}
Scripts ==
  {ModuleScript} \cup SeqsUpTo(SectionCallChoices \cup ShellCallChoices, MaxRegistrations)

\* what the exports and the block renderers are asked
GateIds == {<<"hero", ".", "split">>, <<"header", ".", "default">>, <<"hero", ".", "ghost">>}
GateProps == {HeroProps(JStr(<<"Welcome">>)), HeroProps(JStr(<<>>)), UNDEFINED}
\* overrides as a renderer can be handed them: absent, all kept, one key
\* dropped, every key dropped
OverrideChoices ==
  {UNDEFINED,
   JRec(<<CssVar("a", "1")>>),
   JRec(<<CssVar("a", "1"), [k |-> <<"b">>, v |-> JStr(<<"2">>)]>>),
   JRec(<<[k |-> <<"b">>, v |-> JStr(<<"2">>)]>>)}
BlockSections ==
  {HeroSection,
   SectionObject(JStr(<<"hero", ".", "split">>), HeroProps(JStr(<<>>))),
   SectionObject(JStr(<<"hero", ".", "ghost">>), HeroProps(JStr(<<"Welcome">>)))}
  \cup {[HeroSection EXCEPT !.overrides = overrides] : overrides \in OverrideChoices}
BlockShells ==
  {ShellObject(JStr(<<"header", ".", "default">>), UNDEFINED),
   ShellObject(JStr(<<"header", ".", "default">>),
               JRec(<<[k |-> <<"logoText">>, v |-> JNUMBER]>>)),
   ShellObject(JStr(<<"header", ".", "ghost">>), UNDEFINED),
   ShellObject(JStr(<<"footer", ".", "default">>), UNDEFINED)}

InitRegistry ==
  /\ script \in Scripts
  /\ registered = 0
  /\ loaded = FALSE
  /\ console = <<>>
  /\ served = NotServed
  /\ sectionRegistry = <<>>
  /\ shellRegistry = <<>>
  /\ PageIdle
  /\ config \in [defaultLocale : {<<>>}, shellStrictPrivate : {FALSE}, isDev : BOOLEAN]
  /\ query = [kind |-> <<"site">>, slug |-> <<"x">>, locale |-> <<"fr">>]
  /\ content = {}
  /\ LoaderIdle
  /\ SitemapIdle

\* the next statement of the module bodies is a registerSection call
RegisterSection ==
  /\ registered < Len(script)
  /\ script[registered + 1].registry = "section"
  /\ LET done == registerSection(sectionRegistry, script[registered + 1].entry)
     IN /\ sectionRegistry' = done.registry
        /\ console' = console \o done.console
  /\ registered' = registered + 1
  /\ UNCHANGED <<shellRegistry, script, loaded, served>>
  /\ UNCHANGED <<loaderVars, pageVars, sitemapVars>>

\* the next statement of the module bodies is a registerShell call
RegisterShell ==
  /\ registered < Len(script)
  /\ script[registered + 1].registry = "shell"
  /\ LET done == registerShell(shellRegistry, script[registered + 1].entry)
     IN /\ shellRegistry' = done.registry
        /\ console' = console \o done.console
  /\ registered' = registered + 1
  /\ UNCHANGED <<sectionRegistry, script, loaded, served>>
  /\ UNCHANGED <<loaderVars, pageVars, sitemapVars>>

\* exports that are callable while the bodies still run
ModuleLoaded_Early ==
  /\ ~loaded
  /\ loaded' = TRUE
  /\ UNCHANGED <<sectionRegistry, shellRegistry, script, registered, console, served>>
  /\ UNCHANGED <<loaderVars, pageVars, sitemapVars>>

\* the module bodies have run to their last statement: importers get the exports
ModuleLoaded ==
  /\ ~loaded
  /\ registered = Len(script)
  /\ loaded' = TRUE
  /\ UNCHANGED <<sectionRegistry, shellRegistry, script, registered, console, served>>
  /\ UNCHANGED <<loaderVars, pageVars, sitemapVars>>

Answer(answer) ==
  /\ served' = answer
  /\ UNCHANGED <<sectionRegistry, shellRegistry, script, registered, loaded, console>>
  /\ UNCHANGED <<loaderVars, pageVars, sitemapVars>>

\* getRegisteredSectionIds() and getAllSections()
ListSections ==
  /\ loaded
  /\ Answer([op |-> "getAllSections", ids |-> getRegisteredSectionIds(sectionRegistry),
             entries |-> getAllSections(sectionRegistry)])

\* getRegisteredShellIds() and getAllShells()
ListShells ==
  /\ loaded
  /\ Answer([op |-> "getAllShells", ids |-> getRegisteredShellIds(shellRegistry),
             entries |-> getAllShells(shellRegistry)])

\* listShellsBySlot(slot)
ListShellsBySlot ==
  /\ loaded
  /\ \E slot \in ShellSlots :
       Answer([op |-> "listShellsBySlot", slot |-> slot,
               ids |-> MapKeys(listShellsBySlot(shellRegistry, slot)),
               entries |-> listShellsBySlot(shellRegistry, slot)])

\* validateSectionProps(id, props)
ValidateSectionProps ==
  /\ loaded
  /\ \E id \in GateIds, props \in GateProps :
       Answer([op |-> "validateSectionProps", id |-> id, props |-> props,
               result |-> validateSectionProps(sectionRegistry, id, props)])

\* validateShellProps(id, props)
ValidateShellProps ==
  /\ loaded
  /\ \E id \in GateIds, props \in GateProps :
       Answer([op |-> "validateShellProps", id |-> id, props |-> props,
               result |-> validateShellProps(shellRegistry, id, props)])

\* one <SectionRenderer :section="section">
RenderSectionBlock ==
  /\ loaded
  /\ \E section \in BlockSections :
       Answer([op |-> "SectionRenderer", section |-> section,
               thrown |-> sectionThrows(isDev, sectionRegistry, section),
               block |-> sectionTemplate(isDev, sectionRegistry, section, UNDEFINED),
               warnings |-> sectionStyleWarnings(isDev, section)])

\* one <ShellRenderer slot="header" :shell="shellDef">
RenderShellBlock ==
  /\ loaded
  /\ \E shellDef \in BlockShells, server \in BOOLEAN :
       Answer([op |-> "ShellRenderer", shell |-> shellDef, slot |-> "header",
               thrown |-> shellThrows(isDev, server, shellRegistry, shellDef, "header"),
               block |-> shellTemplate(isDev, shellRegistry, shellDef, "header")])

NextRegistry ==
  \/ RegisterSection
  \/ RegisterShell
  \/ ModuleLoaded
  \/ ListSections
  \/ ListShells
  \/ ListShellsBySlot
  \/ ValidateSectionProps
  \/ ValidateShellProps
  \/ RenderSectionBlock
  \/ RenderShellBlock

SpecRegistry == InitRegistry /\ [][NextRegistry]_vars

\* ------------------------------------------------------------------------
\* The sitemap of one server process: the requests of /sitemap.xml call
\* getSitemapEntries, which has one await (the content query)
\* ------------------------------------------------------------------------
SitemapDoc(path, draft, noindex, lastmod) ==
  [t |-> "object", _path |-> path, draft |-> draft, seo |-> [noindex |-> noindex],
   lastmod |-> lastmod]
SitemapDocs ==
  {SitemapDoc(<<"/", "fr", "/pages/", "site", "/", "x">>, FALSE, FALSE, UNDEFINED),
   SitemapDoc(<<"/", "en", "/pages/", "site", "/", "x">>, FALSE, FALSE, UNDEFINED),
   SitemapDoc(<<"/", "fr", "/pages/", "p", "/", "x">>, FALSE, FALSE, UNDEFINED),
   SitemapDoc(<<"/", "fr", "/blog/", "hello">>, FALSE, FALSE, JStr(<<"2024-01-01">>)),
   SitemapDoc(<<"/", "en", "/blog/", "hello">>, FALSE, TRUE, UNDEFINED)}
SitemapRuntimes ==
  [defaultLocale : {<<>>, <<"en">>}, shellStrictPrivate : {FALSE}, isDev : {FALSE},
   siteUrl : {<<"https://example.com", "/">>},
   locales : {UNDEFINED, JArr(<<<<"fr">>>>)},
   localeMeta : {UNDEFINED}]

\* serverQueryContent(event).where({ draft: { $ne: true } }).find(): the
\* documents in the order the storage returns them
RECURSIVE findAll(_)
findAll(store) ==
  IF store = {} THEN <<>>
  ELSE LET first == CHOOSE d \in store : TRUE
       IN (IF first.draft THEN <<>> ELSE <<first>>) \o findAll(store \ {first})

InitSitemap ==
  /\ config \in SitemapRuntimes
  /\ content \in SUBSET SitemapDocs
  /\ query = [kind |-> <<"site">>, slug |-> <<"x">>, locale |-> <<"fr">>]
  /\ LoaderIdle
  /\ RenderIdle
  /\ SitemapIdle

\* getSitemapEntries up to its await: the cached entries if the cache is valid,
\* the static entries and the content query otherwise
GetSitemapEntries(r) ==
  /\ refresh[r].pc = "idle"
  /\ LET cfg == sitemapConfig(config)
         cacheKey == cacheKeyOf(cfg)
     IN refresh' = [refresh EXCEPT ![r] =
          IF cacheIsValid(cache, cacheKey, now)
          THEN [pc |-> "returned", cfg |-> cfg, key |-> cacheKey, entries |-> cache.entries,
                hit |-> TRUE]
          ELSE [pc |-> "querying", cfg |-> cfg, key |-> cacheKey,
                entries |-> staticEntries(cfg), hit |-> FALSE]]
  /\ UNCHANGED <<cache, now>>
  /\ UNCHANGED <<loaderVars, renderVars, moduleVars>>

\* the end of getSitemapEntries: sort, store in the cache, return
StoreAndReturn(r, entries) ==
  /\ cache' = [at |-> now, key |-> refresh[r].key, entries |-> entries]
  /\ refresh' = [refresh EXCEPT ![r].pc = "returned", ![r].entries = entries]
  /\ now' = now
  /\ UNCHANGED <<loaderVars, renderVars, moduleVars>>

\* the content query answers with the documents
ContentFound(r) ==
  /\ refresh[r].pc = "querying"
  /\ StoreAndReturn(r, entriesWithContent(refresh[r].cfg, refresh[r].entries,
                                         findAll(content)))

\* the content query throws: the catch keeps the static entries only
ContentQueryFailed(r) ==
  /\ refresh[r].pc = "querying"
  /\ StoreAndReturn(r, entriesWithoutContent(refresh[r].entries))

\* the request is over; the process serves its next request
NextSitemapRequest(r) ==
  /\ refresh[r].pc = "returned"
  /\ refresh' = [refresh EXCEPT ![r] = IdleRefresh]
  /\ UNCHANGED <<cache, now>>
  /\ UNCHANGED <<loaderVars, renderVars, moduleVars>>

\* time passes, half a time-to-live at a time
Tick ==
  /\ now < CACHE_TTL + CACHE_TTL
  /\ now' = now + CACHE_TTL \div 2
  /\ UNCHANGED <<cache, refresh>>
  /\ UNCHANGED <<loaderVars, renderVars, moduleVars>>

NextSitemap ==
  \/ \E r \in Requests : GetSitemapEntries(r)
  \/ \E r \in Requests : ContentFound(r)
  \/ \E r \in Requests : ContentQueryFailed(r)
  \/ \E r \in Requests : NextSitemapRequest(r)
  \/ Tick
SpecSitemap == InitSitemap /\ [][NextSitemap]_vars

\* ------------------------------------------------------------------------
\* Stages of a page load (spec 4.5) as positions of the request
\* ------------------------------------------------------------------------
StageOf(position, outcome) ==
  CASE position = "requested" -> "REQUESTED"
    [] position \in {"path_resolved", "await_primary", "await_fallback"} -> "PATH_RESOLVED"
    [] position = "fetched" -> "FETCHED"
    [] position \in {"normalized", "strict_done", "slots_ok"} -> "NORMALIZED"
    [] position = "validated" -> "VALIDATED"
    [] OTHER -> IF outcome.type = "page" THEN "READY" ELSE "REJECTED"
Stage == StageOf(pc, result)

StageSuccessor ==
  [REQUESTED |-> "PATH_RESOLVED", PATH_RESOLVED |-> "FETCHED", FETCHED |-> "NORMALIZED",
   NORMALIZED |-> "VALIDATED", VALIDATED |-> "READY", READY |-> "READY",
   REJECTED |-> "REJECTED"]

LoaderCalled == validateQuery(query).type = "ok"
FetchOver == LoaderCalled /\ pc \notin {"requested", "path_resolved", "await_primary",
                                        "await_fallback"}
LoadOver == LoaderCalled /\ pc \in {"returned", "responded"}
PrimaryPath == buildContentPath(query.kind, query.slug, query.locale)
DefaultPath == buildContentPath(query.kind, query.slug, defaultLocale)

\* ------------------------------------------------------------------------
\* C1
\* ------------------------------------------------------------------------
\* C1 (as claimed): a load moves through REQUESTED, PATH_RESOLVED, FETCHED,
\* NORMALIZED, VALIDATED in that order and ends in READY or REJECTED, READY being
\* entered from VALIDATED only; and the strict shell nulling of the business-rule
\* pass touches the shell only of a page that is already VALIDATED.
C1_StagesThenBusinessRules ==
  [][/\ StageOf(pc', result') \in {Stage, StageSuccessor[Stage], "REJECTED"}
     /\ (LoaderCalled /\ normalizedShell' # normalizedShell /\ pc' = "strict_done")
           => Stage = "VALIDATED"]_vars

\* ------------------------------------------------------------------------
\* C2
\* ------------------------------------------------------------------------
\* C2: once the fetch is over, the storage was queried for the primary path only,
\* unless the primary path missed and the locale is not the default locale: then
\* it was queried once more, for the same kind and slug in the default locale, and
\* the document in hand is the one stored there.  No other path is ever queried.
C2_FallbackOnceToDefault ==
  /\ \A i \in 1..Len(calls) : calls[i] \in {PrimaryPath, DefaultPath}
  /\ FetchOver =>
       IF findOne(content, PrimaryPath) = JNULL /\ query.locale # defaultLocale
       THEN calls = <<PrimaryPath, DefaultPath>> /\ rawPage = findOne(content, DefaultPath)
       ELSE calls = <<PrimaryPath>> /\ rawPage = findOne(content, PrimaryPath)

\* a request in a non-default locale was served the default-locale document
C2_Witness ==
  /\ pc = "responded"
  /\ response.status = 200
  /\ Len(calls) = 2
  /\ rawPage._path = DefaultPath
  /\ query.locale # defaultLocale

\* ------------------------------------------------------------------------
\* C3
\* ------------------------------------------------------------------------
NoDocument == findOne(content, PrimaryPath) = JNULL /\ findOne(content, DefaultPath) = JNULL

\* C3: when neither the requested locale nor the default locale holds the page,
\* loadPage returns null (it never throws) and the API answers 404.
C3_NotFoundIs404 ==
  (LoaderCalled /\ NoDocument) =>
     /\ result.type \in {"pending", "null"}
     /\ LoadOver => result.type = "null"
     /\ pc = "responded" => response.status = 404

\* a miss in both locales, answered 404 after the fallback query
C3_Witness ==
  /\ pc = "responded"
  /\ NoDocument
  /\ Len(calls) = 2
  /\ result.type = "null"
  /\ response.status = 404

\* ------------------------------------------------------------------------
\* C4
\* ------------------------------------------------------------------------
\* C4: a request issues at most two storage queries, at most one is in flight at
\* any time, and a second one exists only after the first was answered with a miss.
C4_TwoSequentialCalls ==
  /\ Len(calls) <= 2
  /\ Cardinality(inflight) <= 1
  /\ Len(calls) = 2 => (calls[1] \notin inflight /\ findOne(content, calls[1]) = JNULL)

\* the fallback query is in flight, the primary one answered
C4_Witness == pc = "await_fallback" /\ inflight = {DefaultPath} /\ Len(calls) = 2

\* ------------------------------------------------------------------------
\* C5
\* ------------------------------------------------------------------------
\* the shell id a stored document declares for a slot (HasShellId tells whether
\* it declares one)
HasShellId(doc, slot) ==
  /\ doc.shell.t = "object"
  /\ \/ doc.shell[slot].t = "string"
     \/ doc.shell[slot].t = "object" /\ doc.shell[slot].id.t = "string"
DeclaredShellId(doc, slot) ==
  IF doc.shell[slot].t = "string" THEN doc.shell[slot].s ELSE doc.shell[slot].id.s
SlotMismatch(doc, slot) ==
  HasShellId(doc, slot) /\ ~StartsWith(DeclaredShellId(doc, slot), <<slot, ".">>)

\* C5 (as claimed): a fetched document whose header id does not start with
\* "header." or whose footer id does not start with "footer." is rejected with an
\* error, whatever the kind, and no PageDef is returned.
C5_MismatchRejected ==
  (LoadOver /\ Truthy(rawPage)
      /\ (SlotMismatch(rawPage, "header") \/ SlotMismatch(rawPage, "footer")))
    => result.type = "throw"

\* ------------------------------------------------------------------------
\* C6
\* ------------------------------------------------------------------------
\* a document declares, for slot, a non-empty shell id of the wrong prefix
DeclaredMismatch(doc, slot) ==
  SlotMismatch(doc, slot) /\ DeclaredShellId(doc, slot) # <<>>

\* the CI guard reports an error against the shell of the slot
GuardRejects(doc, slot) ==
  LET errors == validatePage(doc, query.kind, getShellStrictPrivate(config))
  IN \E i \in 1..Len(errors) : StartsWith(errors[i], <<"shell.", slot, ": ">>)

\* ShellRenderer, handed the declared shell, throws or shows a diagnostic
\* instead of the component, on the server and on the client
RendererRejects(doc, slot) ==
  LET shellDef == normalizeShellComponent(doc.shell[slot])
  IN \A server \in BOOLEAN :
       \/ shellThrows(isDev, server, shellRegistry, shellDef, slot).type = "throw"
       \/ shellTemplate(isDev, shellRegistry, shellDef, slot).child.block = "diag"

C6_GuardLayer ==
  \A slot \in ShellSlots :
    (Truthy(rawPage) /\ DeclaredMismatch(rawPage, slot)) => GuardRejects(rawPage, slot)
C6_RendererLayer ==
  \A slot \in ShellSlots :
    (Truthy(rawPage) /\ DeclaredMismatch(rawPage, slot)) => RendererRejects(rawPage, slot)
C6_LoadLayer ==
  \A slot \in ShellSlots :
    (LoadOver /\ Truthy(rawPage) /\ DeclaredMismatch(rawPage, slot))
       => result.type = "throw"

\* C6 (as claimed): a shell id in the wrong slot is rejected by the CI guard, by
\* the server-side load and by ShellRenderer, each on its own.
C6_ThreeLayersReject == C6_GuardLayer /\ C6_LoadLayer /\ C6_RendererLayer

\* ------------------------------------------------------------------------
\* C7
\* ------------------------------------------------------------------------
NonEmptyString(v) == v.t = "string" /\ v.s # <<>>
\* the four checks, on the document as fetched (its kind defaults to the query's)
DocPassesBasicChecks(doc, kind) ==
  /\ Coalesce(doc.kind, JStr(kind)).t = "string"
  /\ Coalesce(doc.kind, JStr(kind)).s \in {<<"site">>, <<"p">>, <<"demo">>}
  /\ doc.seo.t = "object"
  /\ NonEmptyString(doc.seo.title)
  /\ NonEmptyString(doc.seo.description)
  /\ doc.sections.t = "array"
  /\ Len(doc.sections.items) >= 1

\* C7: a returned PageDef has a kind of the enum, a non-empty seo.title, a
\* non-empty seo.description and at least one section; a fetched document that
\* fails one of these checks is rejected and not returned.
C7_ReturnedPageIsWellFormed ==
  /\ result.type = "page" =>
       /\ result.page.kind.s \in {<<"site">>, <<"p">>, <<"demo">>}
       /\ NonEmptyString(result.page.seo.title)
       /\ NonEmptyString(result.page.seo.description)
       /\ Len(result.page.sections.items) >= 1
  /\ (LoadOver /\ Truthy(rawPage) /\ ~DocPassesBasicChecks(rawPage, query.kind))
       => result.type = "throw"

\* a document with an empty sections array was fetched and rejected
C7_Witness ==
  /\ LoadOver
  /\ Truthy(rawPage)
  /\ rawPage.sections = JArr(<<>>)
  /\ rawPage.seo = GoodSeo
  /\ result.type = "throw"

\* ------------------------------------------------------------------------
\* Page composition: failing blocks
\* ------------------------------------------------------------------------
PageRendered == response.status = 200 /\ renderPc \in {"done", "error"}
Sections == page.sections.items

SectionFails(section) == ~sectionValidation(sectionRegistry, section).valid
ShellFails(shellDef, slot) ==
  /\ shouldRender(shellDef)
  /\ ~slotValidation(shellDef, slot).valid \/ ~shellValidation(shellRegistry, shellDef).valid
PageFails ==
  \/ ShellFails(page.shell.header, "header")
  \/ \E i \in 1..Len(Sections) : SectionFails(Sections[i])
  \/ ShellFails(page.shell.footer, "footer")

\* a pack of the page or of one of its sections is not a known pack
PackFails ==
  \E i \in 1..Len(getPacksUsed(page)) : ~isKnownPack(getPacksUsed(page)[i])

Contains(msg, sub) ==
  /\ sub # <<>>
  /\ \E i \in 1..(Len(msg) - Len(sub) + 1) : SubSeq(msg, i, i + Len(sub) - 1) = sub
Leaks(msg, details) == \E d \in details : Contains(msg, d)

\* ids, field paths and issue texts of a fetched document
DocDetails(doc) ==
  LET issues == PageDefSchema(buildPageData(doc, query.kind, query.slug,
                                            normalizeShell(doc.shell))).issues
  IN {DeclaredShellId(doc, slot) : slot \in {sl \in ShellSlots : HasShellId(doc, sl)}}
     \cup (IF doc.sections.t = "array"
           THEN {doc.sections.items[i].id.s : i \in 1..Len(doc.sections.items)}
           ELSE {})
     \cup {issues[i].message : i \in 1..Len(issues)}
     \cup {issues[i].path : i \in 1..Len(issues)}

\* ids and validation errors (field paths and issue texts) of the blocks of a page
PageDetails ==
  {Sections[i].id.s : i \in 1..Len(Sections)}
  \cup {sectionValidation(sectionRegistry, Sections[i]).error : i \in 1..Len(Sections)}
  \cup {shellIdOf(page.shell[slot]) : slot \in ShellSlots}
  \cup {shellValidation(shellRegistry, page.shell[slot]).error : slot \in ShellSlots}

C9_LoaderGeneric ==
  (~isDev /\ LoadOver /\ result.type = "throw")
     => ~Leaks(result.statusMessage, DocDetails(rawPage))
C9_CompositionGeneric ==
  (~isDev /\ PageRendered /\ renderPc = "error")
     => ~Leaks(renderError.statusMessage, PageDetails)

\* C9 (as claimed): in production, the message of an error of the page loader or
\* of the page composition holds no shell or section id, no field path and no
\* validation issue text.
C9_ProductionErrorsGeneric == C9_LoaderGeneric /\ C9_CompositionGeneric

\* ------------------------------------------------------------------------
\* C10
\* ------------------------------------------------------------------------
\* the block emitted for a shell slot in development
ShellBlockOk(block, shellDef, slot) ==
  IF ShellFails(shellDef, slot)
  THEN /\ block.child.block = "diag"
       /\ block.child.id = shellIdOf(shellDef)
       /\ block.child.error # <<>>
  ELSE IF shouldRender(shellDef) THEN block.child.block = "component"
  ELSE block.child.block = "none"

\* C10: in development the render of a page never aborts; a failing section or
\* shell is emitted as a diagnostic that carries its id and its error (for a
\* section, the formatted validation error), and every other block is emitted
\* as its component.
C10_DevelopmentDiagnostics ==
  (isDev /\ PageRendered) =>
     /\ renderPc = "done"
     /\ renderError = NoThrow
     /\ Len(markup) = Len(Sections) + 2
     /\ ShellBlockOk(markup[1], page.shell.header, "header")
     /\ ShellBlockOk(markup[Len(markup)], page.shell.footer, "footer")
     /\ \A i \in 1..Len(Sections) :
          IF SectionFails(Sections[i])
          THEN /\ markup[i + 1].child.block = "diag"
               /\ markup[i + 1].child.id = Sections[i].id.s
               /\ markup[i + 1].child.error
                    = sectionValidation(sectionRegistry, Sections[i]).error
               /\ markup[i + 1].child.error # <<>>
          ELSE markup[i + 1].child.block = "component"

\* a development render with an invalid first section, shown as a diagnostic
\* that names the empty title, and a valid second section, shown as its component
C10_Witness ==
  /\ isDev
  /\ PageRendered
  /\ renderPc = "done"
  /\ Len(Sections) = 2
  /\ markup[2].child.block = "diag"
  /\ markup[2].child.error = <<"title", ": ", "Title is required">>
  /\ markup[3].child.block = "component"

\* ------------------------------------------------------------------------
\* C13
\* ------------------------------------------------------------------------
DeclaredProps(doc, slot) ==
  IF doc.shell[slot].t = "object" /\ doc.shell[slot].props.t = "record"
  THEN doc.shell[slot].props
  ELSE JRec(<<>>)
\* the shell of the slot is the declared one: same id and props, or none declared
DeclaredKept(doc, shell, slot) ==
  IF HasShellId(doc, slot)
  THEN /\ shell[slot].t = "object"
       /\ shell[slot].id.s = DeclaredShellId(doc, slot)
       /\ shell[slot].props = DeclaredProps(doc, slot)
  ELSE ~IsPresent(shell[slot])

\* C13: with the strict-private flag on, a PageDef returned for a request of kind
\* p or demo has neither header nor footer, whatever the document declares; with
\* the flag off, or for kind site, each slot holds the declared shell.
C13_StrictPrivateNullsShells ==
  result.type = "page" =>
     IF getShellStrictPrivate(config) /\ query.kind \in NOINDEX_KINDS
     THEN ~IsPresent(result.page.shell.header) /\ ~IsPresent(result.page.shell.footer)
     ELSE \A slot \in ShellSlots : DeclaredKept(rawPage, result.page.shell, slot)

\* a p page that declares a footer only, returned in strict mode without it
C13_Witness ==
  /\ result.type = "page"
  /\ getShellStrictPrivate(config)
  /\ query.kind = <<"p">>
  /\ HasShellId(rawPage, "footer")
  /\ ~HasShellId(rawPage, "header")
  /\ result.page.shell.footer = JNULL

\* ------------------------------------------------------------------------
\* C14
\* ------------------------------------------------------------------------
\* C14: forceNoindex is true for p and demo whatever the flag, and the flag itself
\* for any other kind; the no-index flag a route hands to setPageSeo for a p or
\* demo page is true whatever seo.noindex says, and for a site page it is the
\* seo.noindex of the page.
C14_ForceNoindex ==
  /\ \A kind \in PageKinds, b \in BOOLEAN :
       forceNoindex(kind, JBool(b)) = IF kind \in {<<"p">>, <<"demo">>} THEN TRUE ELSE b
  /\ head.t = "seo" =>
       IF query.kind \in {<<"p">>, <<"demo">>} THEN head.noindex = TRUE
       ELSE page.seo.noindex.t = "boolean" => head.noindex = page.seo.noindex.b

\* a p page that says noindex: false, served with the flag forced to true
C14_Witness ==
  /\ head.t = "seo"
  /\ query.kind = <<"p">>
  /\ page.seo.noindex = JBool(FALSE)
  /\ head.noindex = TRUE

\* ------------------------------------------------------------------------
\* C20
\* ------------------------------------------------------------------------
\* what a document declares for a slot
RawSlot(doc, slot) == IF doc.shell.t = "object" THEN doc.shell[slot] ELSE UNDEFINED
\* the canonical form of a declared shell value, as the claim gives it
CanonicalOf(raw) ==
  IF raw.t = "null" THEN JNULL
  ELSE IF raw.t = "string" THEN [t |-> "object", id |-> raw, props |-> JRec(<<>>)]
  ELSE IF raw.t = "object" /\ raw.id.t = "string" /\ raw.props.t \in {"record", "undefined"}
  THEN [t |-> "object", id |-> raw.id, props |-> Coalesce(raw.props, JRec(<<>>))]
  ELSE UNDEFINED

\* C20 (as claimed): after normalization each slot is null, absent or {id, props}
\* with a string id: a bare string s became {id: s, props: {}}, an object of the
\* canonical shape kept its id and props (props defaulting to {}), null stayed
\* null and any other value became absent.
C20_NormalizedIsCanonical ==
  pc = "normalized" =>
     \A slot \in ShellSlots : normalizedShell[slot] = CanonicalOf(RawSlot(rawPage, slot))


\* ------------------------------------------------------------------------
\* Registries: life cycle, registration, listings, validation gate
\* ------------------------------------------------------------------------
ListingOps == {"getAllSections", "getAllShells", "listShellsBySlot"}
RegistryOf(op) == IF op = "getAllSections" THEN sectionRegistry ELSE shellRegistry

\* the three ways a block can fail to render, or "ok"
FailureCase(registry, id, props) ==
  IF ~MapHas(registry, id) THEN "not-found"
  ELSE IF ~safeParse(MapGet(registry, id).schema, props).success THEN "props-invalid"
  ELSE IF ~Truthy(getComponent(registry, id)) THEN "unresolvable"
  ELSE "ok"
SectionCase(section) == FailureCase(sectionRegistry, section.id.s, section.props)
ShellCase(shellDef) ==
  FailureCase(shellRegistry, shellDef.id.s, Coalesce(shellDef.props, JRec(<<>>)))
\* what tells one diagnostic from another: its heading and whether it says
\* that the id is not in the registry
ReportForm(child) ==
  [title |-> child.title,
   notFound |-> Contains(child.error, <<"\" not found in registry">>)]
Distinguishable(a, b) ==
  /\ a.block = "diag"
  /\ b.block = "diag"
  /\ ReportForm(a) # ReportForm(b)

C15_RegistriesReadOnly ==
  [][loaded => (sectionRegistry' = sectionRegistry /\ shellRegistry' = shellRegistry)]_vars
C15_Witness ==
  /\ loaded
  /\ registered = Len(script)
  /\ Len(sectionRegistry) = 2
  /\ Len(shellRegistry) = 1
  /\ served.op = "SectionRenderer"

\* the entry of the last of the first n register calls made on a registry for
\* id, JNULL when there is none
RECURSIVE LastRegistered(_, _, _)
LastRegistered(which, id, n) ==
  IF n = 0 THEN JNULL
  ELSE IF script[n].registry = which /\ script[n].entry.id = id THEN script[n].entry
  ELSE LastRegistered(which, id, n - 1)
\* the register calls, among the first n, whose id was already registered
Collisions(n) ==
  {i \in 1..n : \E j \in 1..(i - 1) :
     /\ script[j].registry = script[i].registry
     /\ script[j].entry.id = script[i].entry.id}
Warnings == {i \in 1..Len(console) : console[i].level = "warn"}
C16_EachIdMapsToLast ==
  /\ \A id \in GateIds \cup {<<"faq", ".", "simple">>, <<"footer", ".", "default">>} :
       /\ MapGet(sectionRegistry, id) = LastRegistered("section", id, registered)
       /\ MapGet(shellRegistry, id) = LastRegistered("shell", id, registered)
  /\ Cardinality(Warnings) = Cardinality(Collisions(registered))
C16_SameEntryTwice ==
  (registered' = registered + 1) =>
     LET call == script[registered + 1]
     IN /\ (call.registry = "section"
            /\ MapGet(sectionRegistry, call.entry.id) = call.entry) =>
              sectionRegistry' = sectionRegistry
        /\ (call.registry = "shell"
            /\ MapGet(shellRegistry, call.entry.id) = call.entry) =>
              shellRegistry' = shellRegistry

\* C16: every register call completes; after any sequence of register calls each
\* id maps to the entry of its most recent registration, one warning has been
\* logged per call on an id already present, and a call that registers the entry
\* an id already maps to leaves the registry as it was
C16_LastWriteWins == []C16_EachIdMapsToLast /\ [][C16_SameEntryTwice]_vars
C16_Witness ==
  /\ script # ModuleScript
  /\ registered = 2
  /\ script[1].registry = "section"
  /\ script[2].registry = "section"
  /\ script[1].entry.id = script[2].entry.id
  /\ script[1].entry # script[2].entry
  /\ Len(sectionRegistry) = 1
  /\ sectionRegistry[1] = script[2].entry
  /\ Cardinality(Warnings) = 1

IsSortedById(ids) == \A i \in 1..(Len(ids) - 1) : IdLess(ids[i], ids[i + 1])

\* C17: every listing of a registry (ids and entries, sections and shells) is
\* sorted by id, whatever the order of the register calls
C17_ListingsSortedById ==
  served.op \in ListingOps =>
     /\ IsSortedById(served.ids)
     /\ IsSortedById(MapKeys(served.entries))

\* C18: in the shipped modules, every id a listing returns has a schema and at
\* least one fixture
C18_ListedHaveSchemaAndFixtures ==
  (script = ModuleScript /\ served.op \in ListingOps) =>
     \A i \in 1..Len(served.ids) :
        /\ getSchema(RegistryOf(served.op), served.ids[i]) # JNULL
        /\ getFixtures(RegistryOf(served.op), served.ids[i]) # JNULL
        /\ getFixtures(RegistryOf(served.op), served.ids[i]).items # <<>>
C18_Witness ==
  /\ script = ModuleScript
  /\ served.op = "getAllSections"
  /\ Len(served.ids) = Len(SectionRegistrations)
  /\ Len(shellRegistry) = Len(ShellRegistrations)

GateOps == {"validateSectionProps", "validateShellProps"}
\* C19: the validation gate answers every input with a structured result; for an
\* id that is not registered the result is a failure whose error names the id
\* and says "not found in registry", with the same fields as a props failure
C19_GateReturnsStructured ==
  served.op \in GateOps =>
     /\ "success" \in DOMAIN served.result
     /\ IF served.result.success
        THEN DOMAIN served.result = {"success", "data"}
        ELSE /\ DOMAIN served.result = {"success", "error"}
             /\ served.result.error # <<>>
     /\ ~MapHas(IF served.op = "validateSectionProps" THEN sectionRegistry
                ELSE shellRegistry, served.id) =>
          /\ ~served.result.success
          /\ Contains(served.result.error, served.id)
          /\ Contains(served.result.error, <<"\" not found in registry">>)
C19_Witness ==
  /\ served.op = "validateSectionProps"
  /\ served.id = <<"hero", ".", "ghost">>
  /\ MapHas(sectionRegistry, <<"hero", ".", "split">>)
  /\ served.result = [success |-> FALSE,
                      error |-> <<"Section", " \"", "hero", ".", "ghost",
                                  "\" not found in registry">>]

\* ------------------------------------------------------------------------
\* Storage path
\* ------------------------------------------------------------------------
KindRoot(kind, locale) == <<"/">> \o locale \o <<"/pages/">> \o kind
ExpectedPath(kind, slug, locale) ==
  IF slug \in {<<>>, <<"index">>} THEN KindRoot(kind, locale)
  ELSE KindRoot(kind, locale) \o <<"/">> \o slug

\* C21: the storage path is a function of (kind, slug, locale): the kind's
\* directory root of the locale for an empty slug or the slug "index", a path
\* under that directory for every other slug; it is the path loadPage holds
C21_PathIsFunctionOfTriple ==
  /\ \A kind \in PageKinds, slug \in QuerySlugs, locale \in Locales :
       buildContentPath(kind, slug, locale) = ExpectedPath(kind, slug, locale)
  /\ (LoaderCalled /\ pc # "requested") =>
       /\ contentPath = ExpectedPath(query.kind, query.slug, query.locale)
       /\ query.slug # <<"index">> =>
            /\ StartsWith(contentPath, KindRoot(query.kind, query.locale) \o <<"/">>)
            /\ contentPath # KindRoot(query.kind, query.locale)
C21_Witness ==
  /\ LoaderCalled
  /\ pc = "path_resolved"
  /\ query.slug = <<"index">>
  /\ contentPath = <<"/", "fr", "/pages/", "demo">>

\* ------------------------------------------------------------------------
\* Route outcome and kind of the returned page
\* ------------------------------------------------------------------------
RouteFailed == renderPc = "error" /\ renderError.type = "throw"
LoadRejected == result.type = "throw"

\* C28: the route answers 404 only when no document exists after the locale
\* fallback; a page whose document exists but is rejected at load time (slot
\* mismatch or schema failure) reaches the route as a failure other than 404
C28_RejectedIsNot404 ==
  /\ (RouteFailed /\ renderError.statusCode = 404) => result.type = "null"
  /\ (RouteFailed /\ LoadRejected) => renderError.statusCode # 404

\* C30: the kind of the page returned for a load request is the requested kind
C30_ReturnedKindIsRequested ==
  result.type = "page" => result.page.kind = JStr(query.kind)

\* ------------------------------------------------------------------------
\* Overrides and packs
\* ------------------------------------------------------------------------
IsCssVar(entry) == entry.k # <<>> /\ entry.k[1] = "--"
\* the result the override resolver is specified to give for raw
ResolvedOverrides(raw) ==
  IF raw.t \in {"undefined", "null"} THEN UNDEFINED
  ELSE IF SelectSeq(raw.es, IsCssVar) = <<>> THEN UNDEFINED
  ELSE JRec(SelectSeq(raw.es, IsCssVar))
Dropped(raw) ==
  IF raw.t \in {"undefined", "null"} THEN <<>>
  ELSE SelectSeq(raw.es, LAMBDA entry : ~IsCssVar(entry))
\* warnings name, one for one and in order, the dropped keys of raw
WarnsForDropped(warnings, raw) ==
  /\ Len(warnings) = Len(Dropped(raw))
  /\ \A i \in 1..Len(warnings) :
       /\ warnings[i].level = "warn"
       /\ Contains(warnings[i].message, Dropped(raw)[i].k)
OverridesResolved ==
  /\ \A raw \in OverrideChoices : inlineStyle(raw) = ResolvedOverrides(raw)
  /\ served.op = "SectionRenderer" =>
       served.block.style = ResolvedOverrides(served.section.overrides)

\* C22 as stated: the resolver returns absent for absent overrides, otherwise
\* exactly the entries whose keys begin with "--" (absent when none is left), and
\* emits one diagnostic per dropped key
C22_DiagnosticPerDroppedKey ==
  /\ OverridesResolved
  /\ served.op = "SectionRenderer" =>
       WarnsForDropped(served.warnings, served.section.overrides)

\* C22 amended: the same result; one diagnostic per dropped key in a
\* development build, none in a production build
C22_DiagnosticInDevelopment ==
  /\ OverridesResolved
  /\ served.op = "SectionRenderer" =>
       IF isDev THEN WarnsForDropped(served.warnings, served.section.overrides)
       ELSE served.warnings = <<>>
C22_Witness ==
  /\ isDev
  /\ served.op = "SectionRenderer"
  /\ served.section.overrides = JRec(<<CssVar("a", "1"), [k |-> <<"b">>, v |-> JStr(<<"2">>)]>>)
  /\ served.block.style = JRec(<<CssVar("a", "1")>>)
  /\ Len(served.warnings) = 1
  /\ Contains(served.warnings[1].message, <<"b">>)

\* the sections PageRenderer has emitted so far, and the block of each
EmittedSections ==
  IF renderPc \in {"sections", "done"} THEN 1..(renderIndex - 1) ELSE {}
SectionBlock(i) == markup[i + 1]

\* C23: the ThemeScope of the route carries the page-level overrides and nothing
\* else; the style of each section block is derived from the overrides of that
\* section alone, so a page-level override never appears on a section block
C23_OverridesAppliedByOwnScope ==
  /\ scope.el = "theme-scope" => scope.style = ResolvedOverrides(page.themeOverrides)
  /\ \A i \in EmittedSections :
       SectionBlock(i).style = ResolvedOverrides(Sections[i].overrides)
C23_Witness ==
  /\ renderPc = "done"
  /\ page.themeOverrides = JRec(<<CssVar("brand", "blue")>>)
  /\ Sections[1].overrides = UNDEFINED
  /\ scope.style = JRec(<<CssVar("brand", "blue")>>)
  /\ SectionBlock(1).style = UNDEFINED

IsAbsent(v) == v.t \in {"undefined", "null"}
\* C24 as stated: effectivePack = section.pack ?? page.packKey
C24_SectionPackUnlessAbsent ==
  \A i \in EmittedSections :
     SectionBlock(i).dataPack
       = IF IsAbsent(Sections[i].pack) THEN page.packKey ELSE Sections[i].pack

\* C24 amended: the section's pack is used whenever it is a non-empty string,
\* the page's packKey otherwise (for an absent or an empty section pack)
C24_SectionPackUnlessEmpty ==
  \A i \in EmittedSections :
     SectionBlock(i).dataPack
       = IF Sections[i].pack.t = "string" /\ Sections[i].pack.s # <<>>
         THEN Sections[i].pack ELSE page.packKey
C24_Witness ==
  /\ renderPc = "done"
  /\ page.packKey = JStr(<<"interweb">>)
  /\ Sections[1].pack = JStr(<<"pizza">>)
  /\ SectionBlock(1).dataPack = JStr(<<"pizza">>)


\* ------------------------------------------------------------------------
\* Pack membership
\* ------------------------------------------------------------------------
PackKeyAbsentOrKnown(pageDef) ==
  \/ pageDef.packKey = UNDEFINED
  \/ pageDef.packKey.t = "string" /\ isKnownPack(pageDef.packKey.s)

\* C25 as stated: the packKey of every PageDef the loader returns is absent or a
\* known pack
C25_LoadedPackKeyIsKnown ==
  result.type = "page" => PackKeyAbsentOrKnown(result.page)

\* the route has passed its pack assertion and is setting up or rendering the page
PastPackAssertion ==
  renderPc \in {"seo", "scope", "header", "sections", "footer", "done"}

\* C25 amended: in production, the packKey of every page the route goes on to
\* render (past assertAllPacksKnown) is absent or a known pack, and so is the
\* pack of each of its sections
C25_RenderedPackKeyIsKnown ==
  (~isDev /\ PastPackAssertion) =>
     /\ PackKeyAbsentOrKnown(page)
     /\ \A i \in 1..Len(getPacksUsed(page)) : isKnownPack(getPacksUsed(page)[i])
C25_Witness ==
  /\ ~isDev
  /\ renderPc = "done"
  /\ page.packKey = JStr(<<"interweb">>)
  /\ Sections[1].pack = JStr(<<"pizza">>)


\* ------------------------------------------------------------------------
\* Alternates and the existence check
\* ------------------------------------------------------------------------
\* a document of the requested page is stored for locale
HasDocument(locale) ==
  findOne(content, buildContentPath(query.kind, query.slug, locale)) # JNULL

\* C26: every locale alternate the route hands to setPageSeo is for a locale in
\* which the page has a document
C26_AlternatesHaveDocuments ==
  head # NoHead =>
     \A i \in 1..Len(head.alternates) : HasDocument(head.alternates[i].locale)

\* C29: for a well-formed (kind, slug, locale) the existence check answers
\* exists = true exactly when the primary lookup of the loader finds a document
C29_ExistsAgreesWithPrimaryLookup ==
  validateQuery(query) = NoThrow =>
     LET answer == existsEndpoint(content, query.kind, query.slug, query.locale)
     IN /\ answer.type = "ok"
        /\ answer.exists = (findOne(content, PrimaryPath) # JNULL)
\* the home page is stored for the requested locale and the existence check
\* denies it
C29_HomeDenied ==
  /\ query.slug = <<"index">>
  /\ validateQuery(query) = NoThrow
  /\ findOne(content, PrimaryPath) # JNULL
  /\ ~existsEndpoint(content, query.kind, query.slug, query.locale).exists
\* the page was served by the locale fallback and its own locale is advertised
C26_FallbackAdvertised ==
  /\ head # NoHead
  /\ query.slug = <<"x">>
  /\ ~HasDocument(query.locale)
  /\ \E i \in 1..Len(head.alternates) : head.alternates[i].locale = query.locale


\* ------------------------------------------------------------------------
\* The sitemap cache
\* ------------------------------------------------------------------------
\* the call of request r computed its entries (it did not read them from the cache)
Recomputed(r) == refresh[r].pc = "returned" /\ ~refresh[r].hit

\* C27: for a given cache key, every refresh computes the same entries, and the
\* entries the cache holds for a key are the entries of every refresh of that key
C27_RefreshesConverge ==
  /\ \A r1, r2 \in Requests :
       (Recomputed(r1) /\ Recomputed(r2) /\ refresh[r1].key = refresh[r2].key)
         => refresh[r1].entries = refresh[r2].entries
  /\ \A r \in Requests :
       (cache # JNULL /\ Recomputed(r) /\ refresh[r].key = cache.key)
         => refresh[r].entries = cache.entries

====
